---- MODULE Spec2Model ----
(***************************************************************************)
(* tf-telemetry: the per-installation rate limiter                         *)
(* (internal/middleware/ratelimit.go), its call sites in the HTTP and gRPC *)
(* adapters, and the ingestion Sender (internal/ingest).                   *)
(*                                                                         *)
(* Time is counted in ticks of 1/TicksPerSec second.  A bucket's tokens    *)
(* are counted in units of 1/TicksPerSec token, so that a limiter of R     *)
(* requests per second gains exactly R units per tick and an admission     *)
(* costs TicksPerSec units; the arithmetic of golang.org/x/time/rate is    *)
(* exact in these units.                                                   *)
(***************************************************************************)
EXTENDS Integers, Sequences, FiniteSets, TLC

\* ------------------------------------------------------------------ bounds
TicksPerSec == 1
MaxTime == 1
MaxRequests == 4
MaxSiteRequests == 2
MaxServed == 2

\* The web client: MAX_QUEUE_SIZE stands for the 100 of the source, scaled
\* down; the page sends one packet more than the queue holds and starts
\* MaxPasses retry passes.
MAX_QUEUE_SIZE == 2
MaxPackets == MAX_QUEUE_SIZE + 1
MaxPasses == 1

\* Two request-handling goroutines (net/http and grpc-go each run a handler
\* per request).
Procs == {"h1", "h2"}

VARIABLES
  cfg,        \* config.RateLimitConfig handed to NewRateLimiter
  limiter,    \* the *RateLimiter shared by both adapters (Nil when absent)
  limiters,   \* RateLimiter.limiters: key -> reference of a rate.Limiter
  buckets,    \* the rate.Limiter objects, by reference (allocation order)
  now,        \* the monotonic clock, in ticks
  pc,         \* per handler: position in the request
  req,        \* per handler: the request being served
  lkey,       \* per handler: Allow's local `key` after normalisation
  lref,       \* per handler: Allow's local `limiter` (a reference)
  tread,      \* per handler: the time.Now() read by rate.Limiter.Allow
  resp,       \* per handler: its last answer, with the path and key it was for
  events,     \* history of bucket decisions, in the order they were taken
  started,    \* number of requests received so far
  scfg,       \* the Sender's limits: cfg.Server.MaxPacketSizeBytes, MaxContextAttrs
  spc,        \* position of the caller of Sender.SendTelemetry
  packet,     \* the *pb.TelemetryPacket handed to SendTelemetry
  items,      \* the calls of bulkIndexer.Add made for that packet, in order
  sret,       \* what SendTelemetry returned
  uuidIn,     \* the (data, fieldName) handed to validateUUIDv7
  uuidErr,    \* the error validateUUIDv7 returned for it
  authIn,     \* the header values, config and credentials handed to the auth routines
  authOut,    \* what BasicAuthHTTP, BasicAuthUnary and credentialsMatch made of them
  acfg,       \* cfg.Server.BasicAuth
  ccfg,       \* cfg.Server.CORS
  hreq,       \* the request travelling through a server's handler chain
  hpc,        \* "idle", "run" (inside the chain) or "done" (answered)
  hpos,       \* position in the chain of the stage that runs next
  htrace,     \* the stages and calls the request has gone through, in order
  hresp,      \* the answer to the request
  served,     \* number of requests the servers have taken
  wiring,     \* which New built the HTTP server: "httpserver.go" or "part_005"
  storage,    \* web client: the queue under localStorage[STORAGE_KEY]
  inflight,   \* web client: packets of the page's own sends awaiting fetch
  pass,       \* web client: the retryQueuedPackets calls, with their locals
  sent,       \* web client: number of packets the page has sent so far
  passesRun   \* web client: number of retry passes started so far

limiterVars == <<cfg, limiter, limiters, buckets, now, pc, req, lkey, lref,
                 tread, resp, events, started>>

senderVars == <<scfg, spc, packet, items, sret>>

\* The arguments and results of the validation routines called on their own.
pureVars == <<uuidIn, uuidErr, authIn, authOut>>

\* The servers' handler chains.
serveVars == <<acfg, ccfg, hreq, hpc, hpos, htrace, hresp, served, wiring>>

\* The web client's offline queue.
clientVars == <<storage, inflight, pass, sent, passesRun>>

vars == <<cfg, limiter, limiters, buckets, now, pc, req, lkey, lref, tread,
          resp, events, started, scfg, spc, packet, items, sret,
          uuidIn, uuidErr, authIn, authOut, acfg, ccfg, hreq, hpc, hpos, htrace, hresp, served,
          wiring, storage, inflight, pass, sent, passesRun>>

\* --------------------------------------------------------------- helpers
Min(a, b) == IF a < b THEN a ELSE b

HexDigits == <<"0", "1", "2", "3", "4", "5", "6", "7",
               "8", "9", "a", "b", "c", "d", "e", "f">>

\* encoding/hex.EncodeToString: two lower-case digits per byte.
RECURSIVE EncodeToString(_)
EncodeToString(bs) ==
  IF bs = <<>> THEN ""
  ELSE HexDigits[(Head(bs) \div 16) + 1] \o HexDigits[(Head(bs) % 16) + 1]
       \o EncodeToString(Tail(bs))

\* ------------------------------------------------------------ RateLimiter
Nil == [nil |-> TRUE]

Sentinel == "missing-installation-id"

\* A constructor that forgets the Enabled flag.
NewRateLimiter_IgnoresEnabled(c) ==
  IF c.RequestsPerSecond <= 0
  THEN Nil
  ELSE [nil |-> FALSE, limit |-> c.RequestsPerSecond, burst |-> c.Burst]

NewRateLimiter(c) ==
  IF ~c.Enabled \/ c.RequestsPerSecond <= 0
  THEN Nil
  ELSE [nil |-> FALSE, limit |-> c.RequestsPerSecond, burst |-> c.Burst]

\* Allow, line 41: the receiver is absent or has no positive rate.
AllowsUnconditionally(r) == r.nil \/ r.limit <= 0

\* A normalisation that leaves the empty key alone.
NormalizeKey_Identity(key) == key

\* Allow, lines 44-46.
NormalizeKey(key) == IF key = "" THEN Sentinel ELSE key

\* A bucket created with a burst of one whatever the configuration says.
NewLimiter_BurstOfOne(limit, burst) ==
  [limit |-> limit, burst |-> 1, tokens |-> TicksPerSec, last |-> 0]

\* rate.NewLimiter(r.limit, r.burst): a bucket that starts full.
NewLimiter(limit, burst) ==
  [limit |-> limit, burst |-> burst, tokens |-> burst * TicksPerSec, last |-> 0]

\* A lookup that hands every key the first bucket ever created.
limiterForKey_SharedBucket(lims, bks, r, key) ==
  IF key \in DOMAIN lims
  THEN [limiters |-> lims, buckets |-> bks, ref |-> lims[key]]
  ELSE IF Len(bks) > 0
       THEN [limiters |-> [k \in DOMAIN lims \cup {key} |->
                             IF k = key THEN 1 ELSE lims[k]],
             buckets  |-> bks,
             ref      |-> 1]
       ELSE [limiters |-> [k \in {key} |-> 1],
             buckets  |-> <<[limit |-> r.limit, burst |-> r.burst,
                             tokens |-> r.burst * TicksPerSec, last |-> 0]>>,
             ref      |-> 1]

\* A lookup that creates a bucket on every call and overwrites the entry.
limiterForKey_AlwaysNew(lims, bks, r, key) ==
  [limiters |-> [k \in DOMAIN lims \cup {key} |->
                   IF k = key THEN Len(bks) + 1 ELSE lims[k]],
   buckets  |-> Append(bks, [limit |-> r.limit, burst |-> r.burst,
                             tokens |-> r.burst * TicksPerSec, last |-> 0]),
   ref      |-> Len(bks) + 1]

\* limiterForKey: look the key up, create and insert its bucket when absent;
\* the whole function runs under r.mu.
limiterForKey(lims, bks, r, key) ==
  IF key \in DOMAIN lims
  THEN [limiters |-> lims, buckets |-> bks, ref |-> lims[key]]
  ELSE [limiters |-> [k \in DOMAIN lims \cup {key} |->
                        IF k = key THEN Len(bks) + 1 ELSE lims[k]],
        buckets  |-> Append(bks, NewLimiter(r.limit, r.burst)),
        ref      |-> Len(bks) + 1]

\* A bucket that never refills.
advance_NoRefill(lim, t) ==
  [delta |-> 0, tokens |-> Min(lim.tokens, lim.burst * TicksPerSec)]

\* A refill without the burst ceiling.
advance_NoCeiling(lim, t) ==
  LET last    == IF t < lim.last THEN t ELSE lim.last
      elapsed == t - last
      delta   == elapsed * lim.limit
  IN  [delta |-> delta, tokens |-> lim.tokens + delta]

\* rate.Limiter.advance: the tokens the bucket holds at time t.
advance(lim, t) ==
  LET last    == IF t < lim.last THEN t ELSE lim.last
      elapsed == t - last
      delta   == elapsed * lim.limit
  IN  [delta  |-> Min(lim.tokens + delta, lim.burst * TicksPerSec) - lim.tokens,
       tokens |-> Min(lim.tokens + delta, lim.burst * TicksPerSec)]

\* A decision whose decrement is lost, as an unsynchronised
\* read-modify-write would lose it.
reserveN_LostUpdate(lim, t) ==
  LET avail == Min(lim.tokens + (t - Min(t, lim.last)) * lim.limit,
                   lim.burst * TicksPerSec)
  IN  [ok  |-> 1 <= lim.burst /\ avail - TicksPerSec >= 0,
       lim |-> lim]

\* rate.Limiter.reserveN(t, 1, 0), as called by rate.Limiter.Allow: under
\* the bucket's own mutex, take one token if one is there.
reserveN(lim, t) ==
  LET tokens == advance(lim, t).tokens - TicksPerSec
      ok     == 1 <= lim.burst /\ tokens >= 0
  IN  [ok  |-> ok,
       lim |-> IF ok THEN [lim EXCEPT !.tokens = tokens, !.last = t] ELSE lim]

\* ------------------------------------------------------------- call sites
\* A request is a telemetry packet (with or without metadata, with the
\* installation id bytes it carries) or some other message; for a caller
\* that names the key itself (a key extractor handed to RateLimitHTTP, or a
\* direct call of Allow) fnKey is that key.
InstIds == {<<>>, <<171>>}
Keys == {"", "ab"}

\* Direct calls of RateLimiter.Allow(key).
Calls ==
  [path : {"direct"}, kind : {"other"}, meta : {FALSE}, instId : {<<>>}, fnKey : Keys]

\* Requests arriving at the adapters.
Requests ==
  [path : {"http"}, kind : {"packet"}, meta : {FALSE}, instId : {<<>>}, fnKey : {""}]
  \cup [path : {"http"}, kind : {"packet"}, meta : {TRUE}, instId : InstIds, fnKey : {""}]
  \cup [path : {"grpc"}, kind : {"other"}, meta : {FALSE}, instId : {<<>>}, fnKey : {""}]
  \cup [path : {"grpc"}, kind : {"packet"}, meta : {FALSE}, instId : {<<>>}, fnKey : {""}]
  \cup [path : {"grpc"}, kind : {"packet"}, meta : {TRUE}, instId : InstIds, fnKey : {""}]
  \cup [path : {"wrapped"}, kind : {"other"}, meta : {FALSE}, instId : {<<>>}, fnKey : {"", "ab"}]

NoReq == [path |-> "none", kind |-> "other", meta |-> FALSE, instId |-> <<>>, fnKey |-> ""]

\* httpserver.installationIDHex
installationIDHex(r) ==
  IF ~r.meta THEN "" ELSE EncodeToString(r.instId)

\* middleware.installationIDFromRequest
installationIDFromRequest(r) ==
  IF r.kind = "packet" /\ r.meta THEN EncodeToString(r.instId) ELSE ""

\* The key each call site hands to Allow.
SiteKey(r) ==
  CASE r.path = "http" -> installationIDHex(r)
    [] r.path = "grpc" -> installationIDFromRequest(r)
    [] OTHER -> r.fnKey

\* RateLimitHTTP, line 66: the wrapper consults the limiter only when it is
\* present.
RateLimitHTTP(r) == ~r.nil

\* telemetryMux, line 52: the same guard inlined in the /v1/telemetry handler.
telemetryMux(r) == ~r.nil

\* RateLimitUnary, lines 77-79, and grpcserver.New, lines 23-25: an
\* interceptor is built and installed only for a present limiter with a
\* positive rate.
RateLimitUnary(r) == ~(r.nil \/ r.limit <= 0)

\* Does the call site of this path call RateLimiter.Allow?
SiteCallsAllow(path, r) ==
  CASE path = "http" -> telemetryMux(r)
    [] path = "wrapped" -> RateLimitHTTP(r)
    [] path = "grpc" -> RateLimitUnary(r)
    [] OTHER -> TRUE

\* What a call site answers once Allow has returned: the next handler runs,
\* or the request is turned away; a direct caller gets Allow's value.
SiteAnswer(path, allowed) ==
  CASE path = "direct" -> IF allowed THEN "true" ELSE "false"
    [] path = "grpc" -> IF allowed THEN "next" ELSE "ResourceExhausted"
    [] OTHER -> IF allowed THEN "next" ELSE "429"

NoResp == [path |-> "none", key |-> "", answer |-> "none"]

Answered(r, answer) == [path |-> r.path, key |-> SiteKey(r), answer |-> answer]

Admits(answer) == answer \in {"next", "true"}

\* A call site that turns the request away when there is no limiter.
NoLimiterAnswer_Rejects(path) == IF path = "grpc" THEN "ResourceExhausted" ELSE "429"

\* What a call site answers when it does not consult the limiter: the guard
\* `limiter != nil && ...` is false and the request goes to the next handler
\* (RateLimitHTTP line 70, telemetryMux line 56, the bare gRPC handler).
NoLimiterAnswer(path) == "next"

\* ------------------------------------------------------------- basic auth
\* A string is a sequence of one-character strings; decoded credentials and
\* the configured username and password are sequences of bytes.
\* The alphabet of base64.StdEncoding; its first 26 characters are the
\* upper-case letters and the next 26 the lower-case ones.
B64 ==
  <<"A", "B", "C", "D", "E", "F", "G", "H", "I", "J", "K", "L", "M",
    "N", "O", "P", "Q", "R", "S", "T", "U", "V", "W", "X", "Y", "Z",
    "a", "b", "c", "d", "e", "f", "g", "h", "i", "j", "k", "l", "m",
    "n", "o", "p", "q", "r", "s", "t", "u", "v", "w", "x", "y", "z",
    "0", "1", "2", "3", "4", "5", "6", "7", "8", "9", "+", "/">>

Pad == "="

IsB64(c) == \E i \in 1 .. 64 : B64[i] = c

B64Value(c) == (CHOOSE i \in 1 .. 64 : B64[i] = c) - 1

\* base64.StdEncoding.EncodeToString, as a client uses it to build the
\* header value.
RECURSIVE EncodeToBase64(_)
EncodeToBase64(bs) ==
  IF Len(bs) = 0 THEN << >>
  ELSE IF Len(bs) = 1
       THEN <<B64[(bs[1] \div 4) + 1], B64[(bs[1] % 4) * 16 + 1], Pad, Pad>>
  ELSE IF Len(bs) = 2
       THEN <<B64[(bs[1] \div 4) + 1],
              B64[(bs[1] % 4) * 16 + (bs[2] \div 16) + 1],
              B64[(bs[2] % 16) * 4 + 1], Pad>>
  ELSE <<B64[(bs[1] \div 4) + 1],
         B64[(bs[1] % 4) * 16 + (bs[2] \div 16) + 1],
         B64[(bs[2] % 16) * 4 + (bs[3] \div 64) + 1],
         B64[(bs[3] % 64) + 1]>>
       \o EncodeToBase64(SubSeq(bs, 4, Len(bs)))

\* One quantum of four characters; only the last one may be padded.
DecodeQuantum(q, isLast) ==
  LET v(i) == B64Value(q[i])
  IN  IF \A i \in 1 .. 4 : IsB64(q[i])
      THEN LET n == v(1) * 262144 + v(2) * 4096 + v(3) * 64 + v(4)
           IN  [ok |-> TRUE,
                bytes |-> <<n \div 65536, (n \div 256) % 256, n % 256>>]
      ELSE IF isLast /\ IsB64(q[1]) /\ IsB64(q[2]) /\ IsB64(q[3]) /\ q[4] = Pad
      THEN LET n == v(1) * 262144 + v(2) * 4096 + v(3) * 64
           IN  [ok |-> TRUE, bytes |-> <<n \div 65536, (n \div 256) % 256>>]
      ELSE IF isLast /\ IsB64(q[1]) /\ IsB64(q[2]) /\ q[3] = Pad /\ q[4] = Pad
      THEN LET n == v(1) * 262144 + v(2) * 4096
           IN  [ok |-> TRUE, bytes |-> <<n \div 65536>>]
      ELSE [ok |-> FALSE, bytes |-> << >>]

RECURSIVE DecodeQuanta(_)
DecodeQuanta(s) ==
  IF Len(s) = 0 THEN [ok |-> TRUE, bytes |-> << >>]
  ELSE IF Len(s) < 4 THEN [ok |-> FALSE, bytes |-> << >>]
  ELSE LET head == DecodeQuantum(SubSeq(s, 1, 4), Len(s) = 4)
           rest == DecodeQuanta(SubSeq(s, 5, Len(s)))
       IN  IF head.ok /\ rest.ok
           THEN [ok |-> TRUE, bytes |-> head.bytes \o rest.bytes]
           ELSE [ok |-> FALSE, bytes |-> << >>]

\* base64.StdEncoding.DecodeString: line breaks are skipped, the rest must
\* be whole quanta with padding at the end only.
DecodeString(s) ==
  DecodeQuanta(SelectSeq(s, LAMBDA c : c \notin {"\n", "\r"}))

\* The scheme prefix both gates look for.
Prefix == <<"B", "a", "s", "i", "c", " ">>

\* strings.HasPrefix
HasPrefix(s, prefix) ==
  Len(s) >= Len(prefix) /\ SubSeq(s, 1, Len(prefix)) = prefix

\* ASCII lower-casing of one character, and the case-insensitive comparison
\* net/http's parseBasicAuth applies to the scheme.
Lower(c) ==
  IF \E i \in 1 .. 26 : B64[i] = c
  THEN B64[(CHOOSE i \in 1 .. 26 : B64[i] = c) + 26]
  ELSE c

EqualFold(s, t) ==
  Len(s) = Len(t) /\ \A i \in 1 .. Len(s) : Lower(s[i]) = Lower(t[i])

Colon == 58

\* Position of the first colon of a byte string, 0 when it has none.
FirstColon(bs) ==
  IF \E i \in 1 .. Len(bs) : bs[i] = Colon
  THEN CHOOSE i \in 1 .. Len(bs) :
         bs[i] = Colon /\ \A j \in 1 .. i - 1 : bs[j] # Colon
  ELSE 0

SplitN_LastColon(bs) ==
  LET last == IF \E i \in 1 .. Len(bs) : bs[i] = Colon
              THEN CHOOSE i \in 1 .. Len(bs) :
                     bs[i] = Colon /\ \A j \in i + 1 .. Len(bs) : bs[j] # Colon
              ELSE 0
  IN  IF last = 0 THEN <<bs>>
      ELSE <<SubSeq(bs, 1, last - 1), SubSeq(bs, last + 1, Len(bs))>>

\* strings.SplitN(s, ":", 2)
SplitN(bs) ==
  IF FirstColon(bs) = 0 THEN <<bs>>
  ELSE <<SubSeq(bs, 1, FirstColon(bs) - 1),
         SubSeq(bs, FirstColon(bs) + 1, Len(bs))>>

\* Bitwise exclusive-or and or of two bytes.
Xor(a, b) ==
  LET d(k) == (((a \div (2 ^ k)) % 2) + ((b \div (2 ^ k)) % 2)) % 2
  IN  d(0) + 2 * d(1) + 4 * d(2) + 8 * d(3) + 16 * d(4) + 32 * d(5)
      + 64 * d(6) + 128 * d(7)

Or(a, b) ==
  LET d(k) == IF ((a \div (2 ^ k)) % 2) + ((b \div (2 ^ k)) % 2) > 0 THEN 1 ELSE 0
  IN  d(0) + 2 * d(1) + 4 * d(2) + 8 * d(3) + 16 * d(4) + 32 * d(5)
      + 64 * d(6) + 128 * d(7)

\* subtle.ConstantTimeCompare: 0 at once for different lengths, else the
\* or of the byte-wise differences decides.
RECURSIVE OrOfXors(_, _, _)
OrOfXors(x, y, i) ==
  IF i > Len(x) THEN 0 ELSE Or(Xor(x[i], y[i]), OrOfXors(x, y, i + 1))

ConstantTimeCompare(x, y) ==
  IF Len(x) # Len(y) THEN 0
  ELSE IF OrOfXors(x, y, 1) = 0 THEN 1 ELSE 0

credentialsMatch_FoldsCase(username, password, c) ==
  /\ ConstantTimeCompare(username, c.Username) = 1
  /\ Len(password) = Len(c.Password)
  /\ \A i \in 1 .. Len(password) :
       password[i] % 32 = c.Password[i] % 32 /\ password[i] \div 64 = c.Password[i] \div 64

\* credentialsMatch
credentialsMatch(username, password, c) ==
  /\ ConstantTimeCompare(username, c.Username) = 1
  /\ ConstantTimeCompare(password, c.Password) = 1

\* The bytes subtle.ConstantTimeCompare looks at: none when the lengths
\* differ (it returns at once), else every byte of x.
ConstantTimeCompareWork(x, y) == IF Len(x) # Len(y) THEN 0 ELSE Len(x)

\* The bytes credentialsMatch compares: && evaluates the password's
\* comparison only when the username's has returned 1.
credentialsMatchWork(username, password, c) ==
  ConstantTimeCompareWork(username, c.Username)
  + (IF ConstantTimeCompare(username, c.Username) = 1
     THEN ConstantTimeCompareWork(password, c.Password)
     ELSE 0)

\* validateBasicAuth: "" is the nil error.  values is md.Get("authorization").
validateBasicAuth(values, c) ==
  IF Len(values) = 0 THEN "authorization header missing"
  ELSE LET header == values[1]
           decoded == DecodeString(SubSeq(header, Len(Prefix) + 1, Len(header)))
           parts == SplitN(decoded.bytes)
       IN  IF ~HasPrefix(header, Prefix) THEN "invalid authorization header"
           ELSE IF ~decoded.ok THEN "invalid base64 in authorization header"
           ELSE IF Len(parts) # 2 THEN "invalid authorization value"
           ELSE IF ~credentialsMatch(parts[1], parts[2], c)
                THEN "invalid credentials"
           ELSE ""

\* http.Request.BasicAuth: the first Authorization value, parsed by
\* parseBasicAuth, which matches the scheme without regard to case.
BasicAuth(values) ==
  LET auth == IF Len(values) = 0 THEN << >> ELSE values[1]
      decoded == DecodeString(SubSeq(auth, Len(Prefix) + 1, Len(auth)))
      cut == FirstColon(decoded.bytes)
      none == [username |-> << >>, password |-> << >>, ok |-> FALSE]
  IN  IF auth = << >> THEN none
      ELSE IF Len(auth) < Len(Prefix)
              \/ ~EqualFold(SubSeq(auth, 1, Len(Prefix)), Prefix) THEN none
      ELSE IF ~decoded.ok THEN none
      ELSE IF cut = 0 THEN none
      ELSE [username |-> SubSeq(decoded.bytes, 1, cut - 1),
            password |-> SubSeq(decoded.bytes, cut + 1, Len(decoded.bytes)),
            ok |-> TRUE]

\* BasicAuthHTTP: does the wrapper pass the request on?
BasicAuthHTTP(values, c) ==
  LET got == BasicAuth(values)
  IN  got.ok /\ credentialsMatch(got.username, got.password, c)

\* BasicAuthUnary: does the interceptor pass the request on?  hasMD is
\* whether the context carries incoming metadata.
BasicAuthUnary(hasMD, values, c) ==
  IF ~hasMD THEN "missing metadata" ELSE validateBasicAuth(values, c)

\* ----------------------------------------------------------------- Sender
\* Identifiers: absent, too short, sixteen zero bytes, a version-7 UUID, and
\* version 7 with the variant bits wrong.
ZeroUUID == [i \in 1 .. 16 |-> 0]
V7UUID == [ZeroUUID EXCEPT ![7] = 112, ![9] = 128]
V7BadVariant == [ZeroUUID EXCEPT ![7] = 112]
Ids == {<< >>, <<1, 2>>, ZeroUUID, V7UUID, V7BadVariant}

\* A log entry: the length of its message and the number of entries of its
\* context map.  A metric batch is given by its number of points and by the
\* positions (nanPoints) of the points whose battery level is NaN or an
\* infinity, values a protobuf float can carry; hasMetrics and hasLogs say
\* whether packet.Metrics and packet.Logs are non-nil.
MessageLens == {0, 16, 17, 1453, 1454, 2000}
ContextCounts == {0, 2, 3, 6, 7}
EntryShapes == [msgLen : MessageLens, ctx : ContextCounts]
EntryLists ==
  {<< >>} \cup {<<e>> : e \in [msgLen : MessageLens, ctx : ContextCounts]}
    \cup {<<e1, e2>> : e1 \in [msgLen : {0}, ctx : ContextCounts],
                       e2 \in [msgLen : {0}, ctx : ContextCounts]}

Packets ==
  [meta : {FALSE}, instId : {<< >>}, journeyId : {<< >>},
   hasMetrics : {TRUE}, points : {1}, nanPoints : {{}}, hasLogs : {FALSE}, entries : {<< >>}]
  \cup [meta : {FALSE}, instId : {<< >>}, journeyId : {<< >>},
        hasMetrics : {TRUE}, points : {1}, nanPoints : {{}}, hasLogs : {TRUE},
        entries : {<<[msgLen |-> 2000, ctx |-> 7]>>}]
  \cup [meta : {TRUE}, instId : Ids, journeyId : {<<1, 2>>, V7UUID},
        hasMetrics : {FALSE}, points : {0}, nanPoints : {{}}, hasLogs : {FALSE}, entries : {<< >>}]
  \cup [meta : {TRUE}, instId : Ids, journeyId : {<<1, 2>>, V7UUID},
        hasMetrics : {FALSE}, points : {0}, nanPoints : {{}}, hasLogs : {TRUE}, entries : EntryLists]
  \cup {pkt \in [meta : {TRUE}, instId : Ids, journeyId : {<<1, 2>>, V7UUID},
                 hasMetrics : {TRUE}, points : {0, 1, 2}, nanPoints : {{}, {1}},
                 hasLogs : {FALSE, TRUE}, entries : EntryLists] :
          /\ pkt.nanPoints \subseteq 1 .. pkt.points
          /\ ~pkt.hasLogs => pkt.entries = << >>}

NoPacket == [meta |-> FALSE, instId |-> << >>, journeyId |-> << >>,
             hasMetrics |-> FALSE, points |-> 0, nanPoints |-> {},
             hasLogs |-> FALSE, entries |-> << >>]

\* The acknowledgement of an accepted packet, and no acknowledgement.
Accepted == [Success |-> TRUE, Message |-> "Accepted"]
NilAck == [Success |-> FALSE, Message |-> "nil"]

NoReturn == [code |-> "none", reason |-> "", field |-> "", args |-> << >>,
             ack |-> NilAck]

SenderConfigs == [MaxPacketSizeBytes : {0, 60}, MaxContextAttrs : {0, 2}]

\* Length of the protobuf varint that encodes n.
VarintLen(n) == IF n < 128 THEN 1 ELSE IF n < 16384 THEN 2 ELSE 3

\* Wire size of a length-delimited field of n payload bytes: tag, length,
\* payload.
Delimited(n) == 1 + VarintLen(n) + n

\* Wire size of a bytes or string field; proto3 leaves an empty one out.
BytesField(n) == IF n = 0 THEN 0 ELSE Delimited(n)

\* One context map entry: a key and a value of four bytes each.
ContextEntrySize == Delimited(Delimited(4) + Delimited(4))

\* One metric point: timestamp, network type and battery level.
PointSize == Delimited(9)

EntrySize(e) == Delimited(BytesField(e.msgLen) + e.ctx * ContextEntrySize)

RECURSIVE EntriesSize(_)
EntriesSize(es) ==
  IF es = << >> THEN 0 ELSE EntrySize(Head(es)) + EntriesSize(Tail(es))

\* proto.Size(packet)
Size(pkt) ==
  (IF pkt.meta
   THEN Delimited(BytesField(Len(pkt.instId)) + BytesField(Len(pkt.journeyId)))
   ELSE 0)
  + (IF pkt.hasMetrics THEN Delimited(pkt.points * PointSize) ELSE 0)
  + (IF pkt.hasLogs THEN Delimited(EntriesSize(pkt.entries)) ELSE 0)

\* An error is its reason, the field it names and the numbers its message
\* carries; Ok is the nil error.
Ok == [reason |-> "", field |-> "", args |-> << >>]

\* A size check that also turns away a packet of exactly the maximum size.
validatePacketSize_AtLeast(pkt, maxSize) ==
  IF Size(pkt) >= maxSize
  THEN [reason |-> "packet size exceeds maximum", field |-> "packet",
        args |-> <<Size(pkt), maxSize>>]
  ELSE Ok

\* validatePacketSize
validatePacketSize(pkt, maxSize) ==
  IF Size(pkt) > maxSize
  THEN [reason |-> "packet size exceeds maximum", field |-> "packet",
        args |-> <<Size(pkt), maxSize>>]
  ELSE Ok

\* A check that reads the version from the low nibble of byte 6.
validateUUIDv7_LowNibble(data, fieldName) ==
  IF Len(data) = 0
  THEN [reason |-> "is required", field |-> fieldName, args |-> << >>]
  ELSE IF Len(data) # 16
       THEN [reason |-> "must be 16 bytes", field |-> fieldName,
             args |-> <<Len(data)>>]
  ELSE IF data[7] % 16 # 7
       THEN [reason |-> "must be UUID v7", field |-> fieldName,
             args |-> <<data[7] % 16>>]
  ELSE IF (data[9] \div 64) % 4 # 2
       THEN [reason |-> "has invalid UUID variant", field |-> fieldName,
             args |-> << >>]
  ELSE Ok

\* validateUUIDv7
validateUUIDv7(data, fieldName) ==
  IF Len(data) = 0
  THEN [reason |-> "is required", field |-> fieldName, args |-> << >>]
  ELSE IF Len(data) # 16
       THEN [reason |-> "must be 16 bytes", field |-> fieldName,
             args |-> <<Len(data)>>]
  ELSE IF (data[7] \div 16) % 16 # 7
       THEN [reason |-> "must be UUID v7", field |-> fieldName,
             args |-> <<(data[7] \div 16) % 16>>]
  ELSE IF (data[9] \div 64) % 4 # 2
       THEN [reason |-> "has invalid UUID variant", field |-> fieldName,
             args |-> << >>]
  ELSE Ok

\* indexAsync: marshal the document and hand it to bulkIndexer.Add.
\* json.Marshal fails on a float that is NaN or an infinity; the failure is
\* logged and Add is not called.  An error of Add is logged and dropped.
\* `fails` holds the positions, among the Add calls of this packet, at which
\* Add returns an error; `failed` says whether the item's OnFailure callback
\* has fired.
\* An indexAsync that hands a document to Add again when Add has failed.
indexAsync_Retries(done, index, doc, fails) ==
  IF ~doc.finite
  THEN done
  ELSE IF (Len(done) + 1) \in fails
       THEN done \o <<[index |-> index, doc |-> doc, err |-> TRUE, failed |-> FALSE],
                      [index |-> index, doc |-> doc, err |-> FALSE, failed |-> FALSE]>>
       ELSE Append(done, [index |-> index, doc |-> doc, err |-> FALSE,
                          failed |-> FALSE])

indexAsync(done, index, doc, fails) ==
  IF ~doc.finite
  THEN done
  ELSE Append(done, [index |-> index, doc |-> doc,
                     err |-> (Len(done) + 1) \in fails, failed |-> FALSE])

\* metricDocument and logDocument: the document of the i-th point or entry;
\* a log document carries the entry's whole context map.
metricDocument(pkt, i) ==
  [kind |-> "metric", pos |-> i, ctx |-> 0, finite |-> i \notin pkt.nanPoints]

logDocument(pkt, i) ==
  [kind |-> "log", pos |-> i, ctx |-> pkt.entries[i].ctx, finite |-> TRUE]

\* SendTelemetry, lines 258-263: one document per metric point.
RECURSIVE MetricsLoop(_, _, _, _)
MetricsLoop(pkt, i, done, fails) ==
  IF ~pkt.hasMetrics \/ i > pkt.points THEN done
  ELSE MetricsLoop(pkt, i + 1,
                   indexAsync(done, "metrics", metricDocument(pkt, i), fails),
                   fails)

\* A loop that cuts an entry's context down to the limit and carries on.
RECURSIVE LogsLoop_Truncates(_, _, _, _, _)
LogsLoop_Truncates(pkt, i, maxContextAttrs, done, fails) ==
  IF i > Len(pkt.entries)
  THEN [code |-> "OK", reason |-> "", field |-> "", args |-> << >>,
        ack |-> Accepted, items |-> done]
  ELSE LogsLoop_Truncates(pkt, i + 1, maxContextAttrs,
         indexAsync(done, "logs",
                    [kind |-> "log", pos |-> i,
                     ctx |-> Min(pkt.entries[i].ctx, maxContextAttrs),
                     finite |-> TRUE],
                    fails),
         fails)

\* SendTelemetry, lines 271-284: each entry is checked and then indexed, in
\* order; the first entry over the limit ends the call.
RECURSIVE LogsLoop(_, _, _, _, _)
LogsLoop(pkt, i, maxContextAttrs, done, fails) ==
  IF i > Len(pkt.entries)
  THEN [code |-> "OK", reason |-> "", field |-> "", args |-> << >>,
        ack |-> Accepted, items |-> done]
  ELSE IF pkt.entries[i].ctx > maxContextAttrs
       THEN [code |-> "InvalidArgument",
             reason |-> "log entry context exceeds maximum attributes",
             field |-> "context",
             args |-> <<pkt.entries[i].ctx, maxContextAttrs>>,
             ack |-> NilAck, items |-> done]
       ELSE LogsLoop(pkt, i + 1, maxContextAttrs,
                     indexAsync(done, "logs", logDocument(pkt, i), fails),
                     fails)

Rejected(e, done) ==
  [code |-> "InvalidArgument", reason |-> e.reason, field |-> e.field,
   args |-> e.args, ack |-> NilAck, items |-> done]

\* A Sender that looks at the identifiers before the size.
SendTelemetry_IdsFirst(c, pkt, fails) ==
  LET maxPacketSize == IF c.MaxPacketSizeBytes = 0 THEN 1500 ELSE c.MaxPacketSizeBytes
      maxContextAttrs == IF c.MaxContextAttrs = 0 THEN 6 ELSE c.MaxContextAttrs
      sizeErr == validatePacketSize(pkt, maxPacketSize)
      instErr == validateUUIDv7(pkt.instId, "installation_id")
      journeyErr == validateUUIDv7(pkt.journeyId, "journey_id")
      metricsDone == MetricsLoop(pkt, 1, << >>, fails)
  IN  IF ~pkt.meta
      THEN Rejected([reason |-> "missing metadata", field |-> "metadata",
                     args |-> << >>], << >>)
      ELSE IF instErr # Ok THEN Rejected(instErr, << >>)
      ELSE IF journeyErr # Ok THEN Rejected(journeyErr, << >>)
      ELSE IF sizeErr # Ok THEN Rejected(sizeErr, << >>)
      ELSE IF ~pkt.hasLogs
           THEN [code |-> "OK", reason |-> "", field |-> "", args |-> << >>,
                 ack |-> Accepted, items |-> metricsDone]
           ELSE LogsLoop(pkt, 1, maxContextAttrs, metricsDone, fails)

\* Sender.SendTelemetry
SendTelemetry(c, pkt, fails) ==
  LET maxPacketSize == IF c.MaxPacketSizeBytes = 0 THEN 1500 ELSE c.MaxPacketSizeBytes
      maxContextAttrs == IF c.MaxContextAttrs = 0 THEN 6 ELSE c.MaxContextAttrs
      sizeErr == validatePacketSize(pkt, maxPacketSize)
      instErr == validateUUIDv7(pkt.instId, "installation_id")
      journeyErr == validateUUIDv7(pkt.journeyId, "journey_id")
      metricsDone == MetricsLoop(pkt, 1, << >>, fails)
  IN  IF ~pkt.meta
      THEN Rejected([reason |-> "missing metadata", field |-> "metadata",
                     args |-> << >>], << >>)
      ELSE IF sizeErr # Ok THEN Rejected(sizeErr, << >>)
      ELSE IF instErr # Ok THEN Rejected(instErr, << >>)
      ELSE IF journeyErr # Ok THEN Rejected(journeyErr, << >>)
      ELSE IF ~pkt.hasLogs
           THEN [code |-> "OK", reason |-> "", field |-> "", args |-> << >>,
                 ack |-> Accepted, items |-> metricsDone]
           ELSE LogsLoop(pkt, 1, maxContextAttrs, metricsDone, fails)

\* Number of documents the packet can give rise to.
MaxDocs(pkt) ==
  (IF pkt.hasMetrics THEN pkt.points ELSE 0)
  + (IF pkt.hasLogs THEN Len(pkt.entries) ELSE 0)

\* ------------------------------------------------------------------- Init
\* A validation routine that has not been called.
NoUUIDIn == [data |-> << >>, fieldName |-> "none"]
NotCalled == [reason |-> "not called", field |-> "", args |-> << >>]

NoAuthIn ==
  [values |-> << >>, hasMD |-> FALSE,
   c |-> [Enabled |-> FALSE, Username |-> << >>, Password |-> << >>],
   username |-> << >>, password |-> << >>]
NoAuthOut ==
  [http |-> "not called", unary |-> "not called", match |-> "not called",
   work |-> 0]

PureIdle ==
  /\ uuidIn = NoUUIDIn
  /\ uuidErr = NotCalled
  /\ authIn = NoAuthIn
  /\ authOut = NoAuthOut

\* Servers that have taken no request, with basic auth and CORS off.
NoAuth == [Enabled |-> FALSE, Username |-> << >>, Password |-> << >>]
NoCORS == [Enabled |-> FALSE, AllowedOrigins |-> << >>,
           AllowedMethods |-> << >>, AllowedHeaders |-> << >>]
NoServeReq == [path |-> "none", route |-> "", method |-> "", origin |-> "",
               pna |-> FALSE, hasMD |-> FALSE, auth |-> << >>,
               body |-> [ok |-> FALSE, pkt |-> NoPacket]]
NoCorsHeaders ==
  [origin |-> "", methods |-> << >>, headers |-> << >>, privateNetwork |-> FALSE]
NoResponse == [status |-> "none", cors |-> NoCorsHeaders, wwwAuth |-> FALSE]

ServeIdle ==
  /\ acfg = NoAuth
  /\ ccfg = NoCORS
  /\ hreq = NoServeReq
  /\ hpc = "idle"
  /\ hpos = 0
  /\ htrace = << >>
  /\ hresp = NoResponse
  /\ served = 0
  /\ wiring = "httpserver.go"

\* The two retryQueuedPackets calls that may overlap: the one the page's
\* 30-second timer starts and the one a click starts.
Passes == {"timer", "click"}

NoPass == [pc |-> "idle", queue |-> << >>, i |-> 0, newQueue |-> << >>]

\* A page that has sent nothing, with nothing stored.
ClientIdle ==
  /\ storage = << >>
  /\ inflight = {}
  /\ pass = [r \in Passes |-> NoPass]
  /\ sent = 0
  /\ passesRun = 0

\* config.Load, lines 65-68: an enabled limiter configured without a burst
\* gets a burst of one second's worth of requests.
Load(c) ==
  IF c.Enabled /\ c.RequestsPerSecond > 0 /\ c.Burst = 0
  THEN [c EXCEPT !.Burst = c.RequestsPerSecond]
  ELSE c

\* Configurations: rate limiting off, on without a positive rate, and on
\* with a rate and a burst.
Rates == {1, 2}
Bursts == {0, 1, 2}
RawConfigs ==
  [Enabled : {FALSE}, RequestsPerSecond : {1}, Burst : {1}]
  \cup [Enabled : {TRUE}, RequestsPerSecond : {-1, 0}, Burst : {1}]
  \cup [Enabled : {TRUE}, RequestsPerSecond : Rates, Burst : Bursts]

Init ==
  /\ \E raw \in RawConfigs : cfg = Load(raw)
  /\ limiter = NewRateLimiter(cfg)
  /\ limiters = << >>
  /\ buckets = << >>
  /\ now = 0
  /\ pc = [p \in Procs |-> "idle"]
  /\ req = [p \in Procs |-> NoReq]
  /\ lkey = [p \in Procs |-> ""]
  /\ lref = [p \in Procs |-> 0]
  /\ tread = [p \in Procs |-> 0]
  /\ resp = [p \in Procs |-> NoResp]
  /\ events = << >>
  /\ started = 0
  /\ scfg = [MaxPacketSizeBytes |-> 0, MaxContextAttrs |-> 0]
  /\ spc = "idle"
  /\ packet = NoPacket
  /\ items = << >>
  /\ sret = NoReturn
  /\ PureIdle
  /\ ServeIdle
  /\ ClientIdle

\* ---------------------------------------------------------------- actions
\* RateLimiter.Allow(key) up to the point where rate.Limiter.Allow has read
\* time.Now(): the nil check, the key normalisation, limiterForKey (atomic
\* under r.mu) and the clock read, which rate.Limiter.Allow does before it
\* takes the bucket's mutex.  Nothing shared is touched between the return
\* of limiterForKey and the clock read.  Without a limiter Allow returns at
\* once and the call site answers.
Allow(p, r) ==
  IF AllowsUnconditionally(limiter)
  THEN /\ resp' = [resp EXCEPT ![p] = Answered(r, SiteAnswer(r.path, TRUE))]
       /\ UNCHANGED <<limiters, buckets, pc, req, lkey, lref, tread>>
  ELSE LET key == NormalizeKey(SiteKey(r))
           got == limiterForKey(limiters, buckets, limiter, key)
       IN  /\ limiters' = got.limiters
           /\ buckets' = got.buckets
           /\ req' = [req EXCEPT ![p] = r]
           /\ lkey' = [lkey EXCEPT ![p] = key]
           /\ lref' = [lref EXCEPT ![p] = got.ref]
           /\ tread' = [tread EXCEPT ![p] = now]
           /\ pc' = [pc EXCEPT ![p] = "reserve"]
           /\ resp' = [resp EXCEPT ![p] = NoResp]

\* The call site does not consult the limiter and passes the request on.
Pass(p, r) ==
  /\ resp' = [resp EXCEPT ![p] = Answered(r, NoLimiterAnswer(r.path))]
  /\ UNCHANGED <<limiters, buckets, pc, req, lkey, lref, tread>>

\* A caller invokes limiter.Allow(key) directly.
Call(p) ==
  /\ pc[p] = "idle"
  /\ started < MaxRequests
  /\ \E r \in Calls : Allow(p, r)
  /\ started' = started + 1
  /\ UNCHANGED <<cfg, limiter, now, events>>
  /\ UNCHANGED senderVars
  /\ UNCHANGED pureVars
  /\ UNCHANGED serveVars
  /\ UNCHANGED clientVars

\* A request arrives at the HTTP handler, the gRPC server or a handler
\* wrapped by RateLimitHTTP and runs up to the rate-limit check of its call
\* site.
Receive(p) ==
  /\ pc[p] = "idle"
  /\ started < MaxSiteRequests
  /\ \E r \in Requests :
       IF SiteCallsAllow(r.path, limiter) THEN Allow(p, r) ELSE Pass(p, r)
  /\ started' = started + 1
  /\ UNCHANGED <<cfg, limiter, now, events>>
  /\ UNCHANGED senderVars
  /\ UNCHANGED pureVars
  /\ UNCHANGED serveVars
  /\ UNCHANGED clientVars

\* rate.Limiter.Allow decides under the bucket's mutex; RateLimiter.Allow
\* returns the decision, the call site answers and the handler returns.
BucketAllow(p) ==
  /\ pc[p] = "reserve"
  /\ LET lim == buckets[lref[p]]
         adv == advance(lim, tread[p])
         res == reserveN(lim, tread[p])
     IN  /\ buckets' = [buckets EXCEPT ![lref[p]] = res.lim]
         /\ resp' = [resp EXCEPT ![p] =
                       Answered(req[p], SiteAnswer(req[p].path, res.ok))]
         /\ events' = Append(events,
                        [key |-> lkey[p], b |-> lref[p],
                         t |-> tread[p], at |-> now, ok |-> res.ok,
                         delta |-> adv.delta, avail |-> adv.tokens,
                         left |-> advance(res.lim, now).tokens,
                         racing |-> \E q \in Procs \ {p} :
                                      pc[q] = "reserve" /\ lref[q] = lref[p]])
  /\ pc' = [pc EXCEPT ![p] = "idle"]
  /\ req' = [req EXCEPT ![p] = NoReq]
  /\ lkey' = [lkey EXCEPT ![p] = ""]
  /\ lref' = [lref EXCEPT ![p] = 0]
  /\ tread' = [tread EXCEPT ![p] = 0]
  /\ UNCHANGED <<cfg, limiter, limiters, now, started>>
  /\ UNCHANGED senderVars
  /\ UNCHANGED pureVars
  /\ UNCHANGED serveVars
  /\ UNCHANGED clientVars

\* Time passes.
Tick ==
  /\ now < MaxTime
  /\ now' = now + 1
  /\ UNCHANGED <<cfg, limiter, limiters, buckets, pc, req, lkey, lref,
                 tread, resp, events, started>>
  /\ UNCHANGED senderVars
  /\ UNCHANGED pureVars
  /\ UNCHANGED serveVars
  /\ UNCHANGED clientVars

\* The limiter under concurrent direct calls.
Next ==
  \/ \E p \in Procs : Call(p)
  \/ \E p \in Procs : BucketAllow(p)
  \/ Tick

Spec == Init /\ [][Next]_vars

\* The limiter behind its call sites.
NextSites ==
  \/ \E p \in Procs : Receive(p)
  \/ \E p \in Procs : BucketAllow(p)
  \/ Tick

SpecSites == Init /\ [][NextSites]_vars

\* ------------------------------------------------- Sender, specification
InitSender ==
  /\ cfg = [Enabled |-> FALSE, RequestsPerSecond |-> 0, Burst |-> 0]
  /\ limiter = NewRateLimiter(cfg)
  /\ limiters = << >>
  /\ buckets = << >>
  /\ now = 0
  /\ pc = [p \in Procs |-> "idle"]
  /\ req = [p \in Procs |-> NoReq]
  /\ lkey = [p \in Procs |-> ""]
  /\ lref = [p \in Procs |-> 0]
  /\ tread = [p \in Procs |-> 0]
  /\ resp = [p \in Procs |-> NoResp]
  /\ events = << >>
  /\ started = 0
  /\ scfg \in SenderConfigs
  /\ spc = "idle"
  /\ packet = NoPacket
  /\ items = << >>
  /\ sret = NoReturn
  /\ PureIdle
  /\ ServeIdle
  /\ ClientIdle

\* An adapter hands a decoded packet to the Sender.
Submit ==
  /\ spc = "idle"
  /\ \E pkt \in Packets : packet' = pkt
  /\ spc' = "called"
  /\ UNCHANGED <<scfg, items, sret>>
  /\ UNCHANGED limiterVars
  /\ UNCHANGED pureVars
  /\ UNCHANGED serveVars
  /\ UNCHANGED clientVars

\* Sender.SendTelemetry runs to its return; the indexer fails whichever Add
\* calls it likes.
Send ==
  /\ spc = "called"
  /\ \E fails \in SUBSET (1 .. MaxDocs(packet)) :
       LET r == SendTelemetry(scfg, packet, fails)
       IN  /\ items' = r.items
           /\ sret' = [code |-> r.code, reason |-> r.reason,
                       field |-> r.field, args |-> r.args, ack |-> r.ack]
  /\ spc' = "returned"
  /\ UNCHANGED <<scfg, packet>>
  /\ UNCHANGED limiterVars
  /\ UNCHANGED pureVars
  /\ UNCHANGED serveVars
  /\ UNCHANGED clientVars

\* The caller has answered; the next packet may come.
Answer ==
  /\ spc = "returned"
  /\ spc' = "idle"
  /\ packet' = NoPacket
  /\ items' = << >>
  /\ sret' = NoReturn
  /\ UNCHANGED scfg
  /\ UNCHANGED limiterVars
  /\ UNCHANGED pureVars
  /\ UNCHANGED serveVars
  /\ UNCHANGED clientVars

\* The bulk indexer reports an item it had taken as failed: the OnFailure
\* callback of indexAsync (lines 364-378) runs; it logs and does nothing
\* else.
OnFailure ==
  /\ spc = "returned"
  /\ \E i \in 1 .. Len(items) :
       /\ ~items[i].err
       /\ ~items[i].failed
       /\ items' = [items EXCEPT ![i].failed = TRUE]
  /\ UNCHANGED <<scfg, spc, packet, sret>>
  /\ UNCHANGED limiterVars
  /\ UNCHANGED pureVars
  /\ UNCHANGED serveVars
  /\ UNCHANGED clientVars

NextSender == Submit \/ Send \/ Answer \/ OnFailure

SpecSender == InitSender /\ [][NextSender]_vars

\* ------------------------------------------ validateUUIDv7, specification
\* Identifiers handed to validateUUIDv7: absent, of a wrong length (with the
\* version and variant bits in place where the length allows), and sixteen
\* bytes with byte 6 and byte 8 drawn from values around the version nibble
\* and the variant bits.
Byte6Values == {0, 7, 96, 112, 127, 128, 240}
Byte8Values == {0, 64, 128, 191, 192, 255}
UUIDData ==
  {<< >>, <<112, 128>>}
  \cup {[i \in 1 .. 15 |-> IF i = 7 THEN 112 ELSE IF i = 9 THEN 128 ELSE 0]}
  \cup {[i \in 1 .. 17 |-> IF i = 7 THEN 112 ELSE IF i = 9 THEN 128 ELSE 0]}
  \cup {[ZeroUUID EXCEPT ![7] = b6, ![9] = b8] :
          b6 \in Byte6Values, b8 \in Byte8Values}
FieldNames == {"installation_id", "journey_id"}

InitUUID ==
  /\ cfg = [Enabled |-> FALSE, RequestsPerSecond |-> 0, Burst |-> 0]
  /\ limiter = NewRateLimiter(cfg)
  /\ limiters = << >>
  /\ buckets = << >>
  /\ now = 0
  /\ pc = [p \in Procs |-> "idle"]
  /\ req = [p \in Procs |-> NoReq]
  /\ lkey = [p \in Procs |-> ""]
  /\ lref = [p \in Procs |-> 0]
  /\ tread = [p \in Procs |-> 0]
  /\ resp = [p \in Procs |-> NoResp]
  /\ events = << >>
  /\ started = 0
  /\ scfg = [MaxPacketSizeBytes |-> 0, MaxContextAttrs |-> 0]
  /\ spc = "idle"
  /\ packet = NoPacket
  /\ items = << >>
  /\ sret = NoReturn
  /\ uuidIn \in [data : UUIDData, fieldName : FieldNames]
  /\ uuidErr = NotCalled
  /\ authIn = NoAuthIn
  /\ authOut = NoAuthOut
  /\ ServeIdle
  /\ ClientIdle

\* validateUUIDv7(data, fieldName) is called and returns.
ValidateUUID ==
  /\ uuidErr = NotCalled
  /\ uuidErr' = validateUUIDv7(uuidIn.data, uuidIn.fieldName)
  /\ UNCHANGED uuidIn
  /\ UNCHANGED <<authIn, authOut>>
  /\ UNCHANGED <<limiterVars, senderVars, serveVars, clientVars>>

\* The next identifier is handed in.
NextUUID ==
  /\ uuidErr # NotCalled
  /\ uuidIn' \in [data : UUIDData, fieldName : FieldNames]
  /\ uuidErr' = NotCalled
  /\ UNCHANGED <<authIn, authOut>>
  /\ UNCHANGED <<limiterVars, senderVars, serveVars, clientVars>>

NextUUIDv7 == ValidateUUID \/ NextUUID

SpecUUID == InitUUID /\ [][NextUUIDv7]_vars

\* ------------------------------------- the servers' chains, specification
\* strings.Join(elems, ", "), as the pieces of the joined text.
RECURSIVE Join(_)
Join(elems) ==
  IF Len(elems) <= 1 THEN elems
  ELSE <<Head(elems), ", ">> \o Join(Tail(elems))

CorsMiddleware_ReflectsOrigin(c, r) ==
  IF r.origin = ""
  THEN [cors |-> NoCorsHeaders, answered |-> FALSE]
  ELSE [cors |-> [origin |-> r.origin, methods |-> Join(c.AllowedMethods),
                  headers |-> Join(c.AllowedHeaders), privateNetwork |-> FALSE],
        answered |-> r.method = "OPTIONS"]

\* CorsMiddleware's handler: the CORS headers it sets, and whether it
\* answers the request itself (an OPTIONS request from an allowed origin).
CorsMiddleware(c, r) ==
  LET allowedOrigin ==
        IF Len(c.AllowedOrigins) = 0 THEN "*"
        ELSE IF \E i \in 1 .. Len(c.AllowedOrigins) :
                  c.AllowedOrigins[i] \in {"*", r.origin}
             THEN c.AllowedOrigins[
                    CHOOSE i \in 1 .. Len(c.AllowedOrigins) :
                      /\ c.AllowedOrigins[i] \in {"*", r.origin}
                      /\ \A j \in 1 .. i - 1 :
                           c.AllowedOrigins[j] \notin {"*", r.origin}]
             ELSE ""
      allowedMethods ==
        IF Len(c.AllowedMethods) = 0
        THEN <<"GET", "POST", "PUT", "DELETE", "OPTIONS">>
        ELSE c.AllowedMethods
      allowedHeaders ==
        IF Len(c.AllowedHeaders) = 0
        THEN <<"Content-Type", "Authorization", "X-Requested-With">>
        ELSE c.AllowedHeaders
  IN  IF r.origin = "" \/ allowedOrigin = ""
      THEN [cors |-> NoCorsHeaders, answered |-> FALSE]
      ELSE [cors |-> [origin |-> allowedOrigin,
                      methods |-> Join(allowedMethods),
                      headers |-> Join(allowedHeaders),
                      privateNetwork |-> FALSE],
            answered |-> r.method = "OPTIONS"]

HTTPChain_AuthInnermost ==
  (IF ccfg.Enabled THEN <<"cors">> ELSE << >>)
  \o <<"mux">>
  \o (IF acfg.Enabled THEN <<"auth">> ELSE << >>)

\* httpserver.New: the handlers a request meets, outermost first.
\* CorsMiddleware returns the next handler itself when CORS is off.
\* New of httpserver.go wraps the mux in CorsMiddleware and that in
\* BasicAuthHTTP; New of part_005 wraps it in BasicAuthHTTP and that in
\* CorsMiddleware.
HTTPChain ==
  IF wiring = "part_005"
  THEN (IF ccfg.Enabled THEN <<"cors">> ELSE << >>)
       \o (IF acfg.Enabled THEN <<"auth">> ELSE << >>)
       \o <<"mux">>
  ELSE (IF acfg.Enabled THEN <<"auth">> ELSE << >>)
       \o (IF ccfg.Enabled THEN <<"cors">> ELSE << >>)
       \o <<"mux">>

GRPCChain_RateLimitFirst ==
  (IF RateLimitUnary(limiter) THEN <<"ratelimit">> ELSE << >>)
  \o (IF acfg.Enabled THEN <<"auth">> ELSE << >>)
  \o <<"handler">>

GRPCChain_ValidatesFirst ==
  (IF acfg.Enabled THEN <<"auth">> ELSE << >>)
  \o <<"handler">>
  \o (IF RateLimitUnary(limiter) THEN <<"ratelimit">> ELSE << >>)

\* grpcserver.New: the interceptors in the order they are appended, then
\* the service's method.
GRPCChain ==
  (IF acfg.Enabled THEN <<"auth">> ELSE << >>)
  \o (IF RateLimitUnary(limiter) THEN <<"ratelimit">> ELSE << >>)
  \o <<"handler">>

Chain(path) == IF path = "http" THEN HTTPChain ELSE GRPCChain

\* RateLimiter.Allow(key) run at the instant t without another call in
\* between: the decision and the limiter's state after it.
AllowAt(lims, bks, r, key, t) ==
  IF AllowsUnconditionally(r)
  THEN [ok |-> TRUE, limiters |-> lims, buckets |-> bks]
  ELSE LET got == limiterForKey(lims, bks, r, NormalizeKey(key))
           res == reserveN(got.buckets[got.ref], t)
       IN  [ok |-> res.ok, limiters |-> got.limiters,
            buckets |-> [got.buckets EXCEPT ![got.ref] = res.lim]]

\* The credentials the servers are configured with, "u" and "p", and the
\* header values clients send: none, the right credentials, the right
\* credentials under a lower-case scheme, a wrong password, another scheme,
\* and a value that is not base64.
User == <<117>>
Pass1 == <<112>>
Creds(u, pw) == Prefix \o EncodeToBase64(u \o <<Colon>> \o pw)
ServeAuthValues ==
  {<< >>,
   <<Creds(User, Pass1)>>,
   <<<<"b", "a", "s", "i", "c", " ">> \o EncodeToBase64(<<117, 58, 112>>)>>,
   <<Creds(User, <<113>>)>>,
   <<<<"B", "e", "a", "r", "e", "r", " ">> \o EncodeToBase64(<<117, 58, 112>>)>>,
   <<Prefix \o <<"d", "T", "p">>>>}

\* Packets in request bodies: a valid one, one with a zero installation id,
\* one with a log entry over the context limit, one without metadata.
ValidPacket ==
  [meta |-> TRUE, instId |-> V7UUID, journeyId |-> V7UUID,
   hasMetrics |-> TRUE, points |-> 1, nanPoints |-> {},
   hasLogs |-> TRUE, entries |-> <<[msgLen |-> 16, ctx |-> 3]>>]
ServePackets ==
  {ValidPacket,
   [ValidPacket EXCEPT !.instId = ZeroUUID],
   [ValidPacket EXCEPT !.entries = <<[msgLen |-> 16, ctx |-> 7]>>],
   [ValidPacket EXCEPT !.meta = FALSE, !.instId = << >>, !.journeyId = << >>]}

\* Requests: POSTs of every packet without an Origin, POSTs of the valid
\* packet from two origins, the other header values on one POST, OPTIONS
\* preflights, requests that ask for private network access, health checks,
\* and gRPC calls.
ServeRequests ==
  [path : {"http"}, route : {"/v1/telemetry"}, method : {"POST"},
   origin : {""}, pna : {FALSE}, hasMD : {TRUE},
   auth : {<< >>, <<Creds(User, Pass1)>>},
   body : [ok : {TRUE}, pkt : ServePackets] \cup {[ok |-> FALSE, pkt |-> NoPacket]}]
  \cup [path : {"http"}, route : {"/v1/telemetry"}, method : {"POST"},
        origin : {"a", "b"}, pna : {FALSE, TRUE}, hasMD : {TRUE},
        auth : {<<Creds(User, Pass1)>>},
        body : {[ok |-> TRUE, pkt |-> ValidPacket]}]
  \cup [path : {"http"}, route : {"/v1/telemetry"}, method : {"POST"},
        origin : {""}, pna : {FALSE}, hasMD : {TRUE}, auth : ServeAuthValues,
        body : {[ok |-> TRUE, pkt |-> ValidPacket]}]
  \cup [path : {"http"}, route : {"/v1/telemetry"}, method : {"OPTIONS"},
        origin : {"", "a", "b"}, pna : {FALSE}, hasMD : {TRUE},
        auth : {<< >>},
        body : {[ok |-> FALSE, pkt |-> NoPacket]}]
  \cup [path : {"http"}, route : {"/v1/telemetry"}, method : {"OPTIONS"},
        origin : {"a"}, pna : {TRUE}, hasMD : {TRUE},
        auth : {<< >>},
        body : {[ok |-> FALSE, pkt |-> NoPacket]}]
  \cup [path : {"http"}, route : {"/healthz"}, method : {"GET"},
        origin : {"", "a"}, pna : {FALSE}, hasMD : {TRUE},
        auth : {<<Creds(User, Pass1)>>},
        body : {[ok |-> FALSE, pkt |-> NoPacket]}]
  \cup [path : {"grpc"}, route : {""}, method : {""}, origin : {""},
        pna : {FALSE}, hasMD : {TRUE}, auth : {<<Creds(User, Pass1)>>},
        body : [ok : {TRUE}, pkt : ServePackets]]
  \cup [path : {"grpc"}, route : {""}, method : {""}, origin : {""},
        pna : {FALSE}, hasMD : {TRUE}, auth : ServeAuthValues,
        body : {[ok |-> TRUE, pkt |-> ValidPacket]}]
  \cup [path : {"grpc"}, route : {""}, method : {""}, origin : {""},
        pna : {FALSE}, hasMD : {FALSE}, auth : {<< >>},
        body : {[ok |-> TRUE, pkt |-> ValidPacket]}]

\* cfg.Server.CORS: off; on with no origins listed; on with one origin; on
\* with an origin and the wildcard and with methods and headers configured.
CorsConfigs ==
  {NoCORS,
   [NoCORS EXCEPT !.Enabled = TRUE],
   [NoCORS EXCEPT !.Enabled = TRUE, !.AllowedOrigins = <<"a">>],
   [Enabled |-> TRUE, AllowedOrigins |-> <<"a", "*">>,
    AllowedMethods |-> <<"GET", "POST">>, AllowedHeaders |-> <<"X-Custom">>]}

InitServe ==
  /\ \E raw \in [Enabled : {FALSE, TRUE}, RequestsPerSecond : {1}, Burst : {1}] :
       cfg = Load(raw)
  /\ limiter = NewRateLimiter(cfg)
  /\ limiters = << >>
  /\ buckets = << >>
  /\ now = 0
  /\ pc = [p \in Procs |-> "idle"]
  /\ req = [p \in Procs |-> NoReq]
  /\ lkey = [p \in Procs |-> ""]
  /\ lref = [p \in Procs |-> 0]
  /\ tread = [p \in Procs |-> 0]
  /\ resp = [p \in Procs |-> NoResp]
  /\ events = << >>
  /\ started = 0
  /\ scfg = [MaxPacketSizeBytes |-> 0, MaxContextAttrs |-> 0]
  /\ spc = "idle"
  /\ packet = NoPacket
  /\ items = << >>
  /\ sret = NoReturn
  /\ PureIdle
  /\ acfg \in [Enabled : {FALSE, TRUE}, Username : {User}, Password : {Pass1}]
  /\ ccfg \in CorsConfigs
  /\ hreq = NoServeReq
  /\ hpc = "idle"
  /\ hpos = 0
  /\ htrace = << >>
  /\ hresp = NoResponse
  /\ served = 0
  /\ wiring \in {"httpserver.go", "part_005"}
  /\ ClientIdle

\* What the actions of the chains leave alone.
ServeFrame ==
  /\ UNCHANGED <<cfg, limiter, now, pc, req, lkey, lref, tread, resp, events,
                 started, scfg, spc>>
  /\ UNCHANGED pureVars
  /\ UNCHANGED <<acfg, ccfg, wiring>>
  /\ UNCHANGED clientVars

\* A request reaches a server; the previous one has been answered.
ServeArrive ==
  /\ hpc \in {"idle", "done"}
  /\ served < MaxServed
  /\ hreq' \in ServeRequests
  /\ hpc' = "run"
  /\ hpos' = 1
  /\ htrace' = << >>
  /\ hresp' = NoResponse
  /\ packet' = NoPacket
  /\ items' = << >>
  /\ sret' = NoReturn
  /\ served' = served + 1
  /\ UNCHANGED <<limiters, buckets>>
  /\ ServeFrame

AtStage(path, stage) ==
  /\ hpc = "run"
  /\ hreq.path = path
  /\ Chain(path)[hpos] = stage

\* The stage answers the request.
Answers(status) ==
  /\ hpc' = "done"
  /\ hpos' = hpos
  /\ hresp' = [hresp EXCEPT !.status = status]

\* The stage calls the next handler.
CallsNext ==
  /\ hpc' = "run"
  /\ hpos' = hpos + 1
  /\ hresp' = hresp

\* BasicAuthHTTP's handler.
StageAuthHTTP ==
  /\ AtStage("http", "auth")
  /\ htrace' = Append(htrace, "auth")
  /\ IF BasicAuthHTTP(hreq.auth, acfg)
     THEN CallsNext
     ELSE /\ hpc' = "done"
          /\ hpos' = hpos
          /\ hresp' = [hresp EXCEPT !.status = "401", !.wwwAuth = TRUE]
  /\ UNCHANGED <<hreq, served, limiters, buckets, packet, items, sret>>
  /\ ServeFrame

\* CorsMiddleware's handler.
StageCors ==
  /\ AtStage("http", "cors")
  /\ htrace' = Append(htrace, "cors")
  /\ LET c == CorsMiddleware(ccfg, hreq)
     IN  /\ hpc' = IF c.answered THEN "done" ELSE "run"
         /\ hpos' = IF c.answered THEN hpos ELSE hpos + 1
         /\ hresp' = [hresp EXCEPT !.cors = c.cors,
                                   !.status = IF c.answered THEN "200" ELSE @]
  /\ UNCHANGED <<hreq, served, limiters, buckets, packet, items, sret>>
  /\ ServeFrame

\* Sender.SendTelemetry called by a handler for the packet pkt.
CallsSender(pkt, okStatus, errStatus) ==
  LET r == SendTelemetry(scfg, pkt, {})
  IN  /\ packet' = pkt
      /\ items' = r.items
      /\ sret' = [code |-> r.code, reason |-> r.reason, field |-> r.field,
                  args |-> r.args, ack |-> r.ack]
      /\ Answers(IF r.code = "OK" THEN okStatus ELSE errStatus)

\* telemetryMux: the route's handler, from the method check to the answer.
StageMux ==
  /\ AtStage("http", "mux")
  /\ IF hreq.route = "/healthz"
     THEN /\ htrace' = htrace \o <<"mux", "healthz">>
          /\ Answers("200")
          /\ UNCHANGED <<limiters, buckets, packet, items, sret>>
     ELSE IF hreq.method # "POST"
     THEN /\ htrace' = htrace \o <<"mux">>
          /\ Answers("405")
          /\ UNCHANGED <<limiters, buckets, packet, items, sret>>
     ELSE IF ~hreq.body.ok
     THEN /\ htrace' = htrace \o <<"mux", "decode">>
          /\ Answers("400")
          /\ UNCHANGED <<limiters, buckets, packet, items, sret>>
     ELSE IF ~telemetryMux(limiter)
     THEN /\ htrace' = htrace \o <<"mux", "decode", "SendTelemetry">>
          /\ CallsSender(hreq.body.pkt, "202", "400")
          /\ UNCHANGED <<limiters, buckets>>
     ELSE LET a == AllowAt(limiters, buckets, limiter,
                           installationIDHex(hreq.body.pkt), now)
          IN  /\ limiters' = a.limiters
              /\ buckets' = a.buckets
              /\ IF a.ok
                 THEN /\ htrace' = htrace \o <<"mux", "decode", "Allow", "SendTelemetry">>
                      /\ CallsSender(hreq.body.pkt, "202", "400")
                 ELSE /\ htrace' = htrace \o <<"mux", "decode", "Allow">>
                      /\ Answers("429")
                      /\ UNCHANGED <<packet, items, sret>>
  /\ UNCHANGED <<hreq, served>>
  /\ ServeFrame

\* BasicAuthUnary's interceptor.
StageAuthGRPC ==
  /\ AtStage("grpc", "auth")
  /\ htrace' = Append(htrace, "auth")
  /\ IF BasicAuthUnary(hreq.hasMD, hreq.auth, acfg) = ""
     THEN CallsNext
     ELSE Answers("Unauthenticated")
  /\ UNCHANGED <<hreq, served, limiters, buckets, packet, items, sret>>
  /\ ServeFrame

StageRateLimitGRPC_CallsHandlerAnyway ==
  /\ AtStage("grpc", "ratelimit")
  /\ htrace' = htrace \o <<"ratelimit", "Allow">>
  /\ LET a == AllowAt(limiters, buckets, limiter,
                      installationIDFromRequest(
                        [kind |-> "packet", meta |-> hreq.body.pkt.meta,
                         instId |-> hreq.body.pkt.instId]), now)
     IN  /\ limiters' = a.limiters
         /\ buckets' = a.buckets
         /\ CallsNext
  /\ UNCHANGED <<hreq, served, packet, items, sret>>
  /\ ServeFrame

\* RateLimitUnary's interceptor.
StageRateLimitGRPC ==
  /\ AtStage("grpc", "ratelimit")
  /\ htrace' = htrace \o <<"ratelimit", "Allow">>
  /\ LET a == AllowAt(limiters, buckets, limiter,
                      installationIDFromRequest(
                        [kind |-> "packet", meta |-> hreq.body.pkt.meta,
                         instId |-> hreq.body.pkt.instId]), now)
     IN  /\ limiters' = a.limiters
         /\ buckets' = a.buckets
         /\ IF a.ok THEN CallsNext ELSE Answers("ResourceExhausted")
  /\ UNCHANGED <<hreq, served, packet, items, sret>>
  /\ ServeFrame

\* Service.SendTelemetry, the gRPC method: it delegates to the Sender.
StageHandlerGRPC ==
  /\ AtStage("grpc", "handler")
  /\ htrace' = htrace \o <<"handler", "SendTelemetry">>
  /\ CallsSender(hreq.body.pkt, "OK", "InvalidArgument")
  /\ UNCHANGED <<hreq, served, limiters, buckets>>
  /\ ServeFrame

NextServe ==
  \/ ServeArrive
  \/ StageAuthHTTP
  \/ StageCors
  \/ StageMux
  \/ StageAuthGRPC
  \/ StageRateLimitGRPC
  \/ StageHandlerGRPC

SpecServe == InitServe /\ [][NextServe]_vars

\* ----------------------------------------------------------- properties
\* The decisions taken on the bucket of key k, oldest first.
EventsOf(k) == SelectSeq(events, LAMBDA e : e.key = k)

\* Number of admissions among ev[i..j].
Admitted(ev, i, j) == Cardinality({m \in i .. j : ev[m].ok})

\* Calls 1..n on k were all made at the instant of the first one.
SameInstant(ev, n) == \A i \in 1 .. n : ev[i].t = ev[1].t

\* On a fresh key, calls made in one instant are admitted exactly while
\* fewer than `burst` went before them.
FreshBurst(k) ==
  LET ev == EventsOf(k)
  IN  \A n \in 1 .. Len(ev) :
        SameInstant(ev, n) => (ev[n].ok <=> n <= limiter.burst)

\* C1: for a limiter with rate R > 0 and burst B, B+1 calls of Allow(k) on a
\* fresh key with no time elapsing between them are admitted exactly B
\* times, the first B, and the (B+1)th is denied.
C1_BurstThenDeny ==
  ~limiter.nil => \A k \in DOMAIN limiters : FreshBurst(k)

C1_Witness ==
  /\ ~limiter.nil
  /\ limiter.burst = 2
  /\ \E k \in DOMAIN limiters :
       LET ev == EventsOf(k)
       IN  /\ Len(ev) = limiter.burst + 1
           /\ SameInstant(ev, Len(ev))
           /\ Admitted(ev, 1, Len(ev)) = limiter.burst
           /\ ~ev[Len(ev)].ok

\* The decisions on one key are those of a bucket of its own that sees
\* only that key's calls.
RECURSIVE Replay(_, _, _)
Replay(lim, ev, i) ==
  IF i > Len(ev) THEN TRUE
  ELSE LET r == reserveN(lim, ev[i].t)
       IN  r.ok = ev[i].ok /\ Replay(r.lim, ev, i + 1)

OwnBudget ==
  ~limiter.nil =>
    \A k \in DOMAIN limiters :
      Replay(NewLimiter(limiter.limit, limiter.burst), EventsOf(k), 1)

\* A step changes the bucket of key k only when it is a decision of a call
\* on k.
OnlyOwnBucket ==
  \A k \in DOMAIN limiters :
    (k \in DOMAIN limiters' /\ buckets'[limiters'[k]] # buckets[limiters[k]])
      => \E p \in Procs :
           pc[p] = "reserve" /\ pc'[p] = "idle" /\ lkey[p] = k

\* C2: Allow(k1) reads and changes only the bucket of k1; exhausting k1
\* never changes the tokens of a distinct key k2, whose calls are admitted
\* from its own budget.
C2_KeysIndependent == []OwnBudget /\ [][OnlyOwnBucket]_vars

C2_Witness ==
  \E i \in 1 .. Len(events) : \E j \in 1 .. Len(events) :
    /\ i < j
    /\ events[i].key # events[j].key
    /\ ~events[i].ok
    /\ events[j].ok
    /\ events[j].t = events[i].t
    /\ \E h \in 1 .. i - 1 : events[h].key = events[j].key

\* C3: NewRateLimiter returns nil when rate limiting is not enabled or
\* requests_per_second <= 0, and Allow on a nil limiter returns true for
\* every key, the empty one included, however many calls went before.
C3_AbsentAdmitsAll ==
  /\ (~cfg.Enabled \/ cfg.RequestsPerSecond <= 0) => limiter = Nil
  /\ limiter.nil =>
       /\ events = << >>
       /\ \A p \in Procs : resp[p].path = "direct" => resp[p].answer = "true"

C3_Witness ==
  /\ limiter.nil
  /\ cfg.Enabled
  /\ started >= 3
  /\ \E p \in Procs :
       resp[p] = [path |-> "direct", key |-> "", answer |-> "true"]

\* C4: whenever SendTelemetry returns a validation error (size, installation
\* id, journey id, or a log entry's context count) the indexer's Add has not
\* been called for that packet: not for its metric points, not for the log
\* entries before the offending one.
C4_NothingIndexedOnReject ==
  (spc = "returned" /\ sret.code = "InvalidArgument") => items = << >>

\* C5: over any stretch of decisions on one key during which no token is
\* refilled, the admissions number at most the tokens the bucket held at
\* the start of the stretch, and the bucket never holds less than zero.
C5_NoTokenGrantedTwice ==
  /\ \A b \in 1 .. Len(buckets) : buckets[b].tokens >= 0
  /\ \A k \in DOMAIN limiters :
       LET ev == EventsOf(k)
       IN  \A i \in 1 .. Len(ev) : \A j \in i .. Len(ev) :
             (\A m \in i + 1 .. j : ev[m].delta = 0)
               => Admitted(ev, i, j) * TicksPerSec <= ev[i].avail

C5_Witness ==
  \E i \in 1 .. Len(events) : \E j \in 1 .. Len(events) :
    /\ i < j
    /\ events[i].key = events[j].key
    /\ events[i].racing
    /\ events[i].ok
    /\ events[i].avail < 2 * TicksPerSec
    /\ events[j].delta = 0
    /\ ~events[j].ok

\* Keys whose bucket some call has asked for.
UsedKeys ==
  {events[i].key : i \in 1 .. Len(events)}
    \cup {lkey[p] : p \in {q \in Procs : pc[q] = "reserve"}}

OneBucketPerKey ==
  /\ DOMAIN limiters = UsedKeys
  /\ Len(buckets) = Cardinality(DOMAIN limiters)
  /\ \A k1 \in DOMAIN limiters : \A k2 \in DOMAIN limiters :
       limiters[k1] = limiters[k2] => k1 = k2
  /\ \A p \in Procs : pc[p] = "reserve" => lref[p] = limiters[lkey[p]]
  /\ \A i \in 1 .. Len(events) : events[i].b = limiters[events[i].key]

KeysStay ==
  \A k \in DOMAIN limiters :
    k \in DOMAIN limiters' /\ limiters'[k] = limiters[k]

\* C6: under any interleaving the map holds exactly one bucket per key that
\* has been used; concurrent first requests for a key get the same bucket,
\* and an entry is never removed or replaced.
C6_OneBucketPerKey == []OneBucketPerKey /\ [][KeysStay]_vars

C6_Witness ==
  \E p \in Procs : \E q \in Procs :
    /\ p # q
    /\ pc[p] = "reserve" /\ pc[q] = "reserve"
    /\ lkey[p] = lkey[q]
    /\ lref[p] = lref[q]
    /\ EventsOf(lkey[p]) = << >>
    /\ Len(buckets) = 2

\* After the decision ev[i] the bucket held less than one token, and the
\* call decided next read its clock at least 1/R seconds later.
RefilledAfterExhaustion(ev, i) ==
  /\ ev[i].left < TicksPerSec
  /\ (ev[i + 1].t - ev[i].at) * limiter.limit >= TicksPerSec

\* C7 as stated: after exhaustion and a wait of at least 1/R seconds
\* exactly one more admission succeeds: the next Allow returns true and the
\* one immediately after it returns false.
C7_ExactlyOneAfterWait ==
  ~limiter.nil =>
    \A k \in DOMAIN limiters :
      LET ev == EventsOf(k)
      IN  \A i \in 1 .. Len(ev) - 1 :
            RefilledAfterExhaustion(ev, i) =>
              /\ ev[i + 1].ok
              /\ (i + 2 <= Len(ev) /\ ev[i + 2].t = ev[i + 1].t)
                   => ~ev[i + 2].ok

\* C7, amended: after exhaustion and a wait of at least 1/R seconds the next
\* Allow returns true; the Allow immediately after it returns false when
\* fewer than two tokens had accrued by then.
C7_RefillAfterWait ==
  ~limiter.nil =>
    \A k \in DOMAIN limiters :
      LET ev == EventsOf(k)
      IN  \A i \in 1 .. Len(ev) - 1 :
            RefilledAfterExhaustion(ev, i) =>
              /\ ev[i + 1].ok
              /\ (/\ i + 2 <= Len(ev)
                  /\ ev[i + 2].t = ev[i + 1].t
                  /\ ev[i + 1].avail < 2 * TicksPerSec)
                   => ~ev[i + 2].ok

C7_Witness ==
  /\ ~limiter.nil
  /\ \E k \in DOMAIN limiters :
       LET ev == EventsOf(k)
       IN  \E i \in 1 .. Len(ev) - 2 :
             /\ RefilledAfterExhaustion(ev, i)
             /\ ev[i + 1].ok
             /\ ev[i + 2].t = ev[i + 1].t
             /\ ~ev[i + 2].ok

\* Tokens a bucket holds now.
TokensNow(lim) == advance(lim, now).tokens

TokensInRange ==
  /\ \A b \in 1 .. Len(buckets) :
       /\ buckets[b].tokens \in 0 .. buckets[b].burst * TicksPerSec
       /\ TokensNow(buckets[b]) \in 0 .. buckets[b].burst * TicksPerSec
  /\ \A k \in DOMAIN limiters :
       LET ev == EventsOf(k)
       IN  \A i \in 1 .. Len(ev) : \A j \in i .. Len(ev) :
             (\A m \in i .. j : ev[m].t = ev[i].t)
               => Admitted(ev, i, j) <= limiter.burst

\* An admission takes exactly one token from the bucket, a denial none.
ConsumesOne ==
  \A p \in Procs :
    (pc[p] = "reserve" /\ pc'[p] = "idle") =>
      LET old == buckets[lref[p]]
          new == buckets'[lref[p]]
          held == Min(old.tokens
                        + (tread[p] - Min(tread[p], old.last)) * old.limit,
                      old.burst * TicksPerSec)
      IN  /\ Admits(resp'[p].answer) => new.tokens = held - TicksPerSec
          /\ ~Admits(resp'[p].answer) => new = old

\* C8: every key's token count stays within [0, B]; after an idle period of
\* any length at most B calls made in one instant are admitted, and each
\* admitted call consumes exactly one token.
C8_TokensBounded == []TokensInRange /\ [][ConsumesOne]_vars

C8_Witness ==
  /\ ~limiter.nil
  /\ limiter.burst = 2
  /\ \E k \in DOMAIN limiters :
       LET ev == EventsOf(k)
       IN  /\ Len(ev) = 3
           /\ ev[1].t > 0
           /\ SameInstant(ev, 3)
           /\ Admitted(ev, 1, 3) = 2
           /\ buckets[limiters[k]].tokens = 0

\* C9: an absent limiter is an always-allow limiter at every call site:
\* RateLimitHTTP and the /v1/telemetry handler pass every request on and
\* never answer 429, RateLimitUnary yields no interceptor, and each request
\* gets the outcome an always-true Allow would give it.
C9_AbsentIsAlwaysAllow ==
  limiter.nil =>
    /\ ~RateLimitUnary(limiter)
    /\ events = << >> /\ buckets = << >>
    /\ \A p \in Procs :
         /\ resp[p].answer \notin {"429", "ResourceExhausted"}
         /\ resp[p] # NoResp => resp[p].answer = SiteAnswer(resp[p].path, TRUE)

C9_Witness ==
  /\ limiter.nil
  /\ started = MaxSiteRequests
  /\ \E p \in Procs : \E q \in Procs :
       /\ resp[p].path = "http" /\ resp[p].answer = "next"
       /\ resp[q].path = "grpc" /\ resp[q].answer = "next"

\* A request that names no installation: an empty installation id, a packet
\* without metadata, a message that is not a telemetry packet, or an empty
\* key from the key extractor.
Anonymous(r) ==
  CASE r.path = "http" -> ~r.meta \/ Len(r.instId) = 0
    [] r.path = "grpc" -> r.kind # "packet" \/ ~r.meta \/ Len(r.instId) = 0
    [] OTHER -> r.fnKey = ""

\* C10: with an enabled limiter every request with an empty or missing key
\* is charged to the one sentinel bucket: after B such admissions in one
\* instant the next one is denied, whichever anonymous client sent it.
C10_AnonymousShareOneBucket ==
  ~limiter.nil =>
    /\ \A p \in Procs :
         (pc[p] = "reserve" /\ Anonymous(req[p])) =>
           /\ lkey[p] = Sentinel
           /\ Sentinel \in DOMAIN limiters
           /\ lref[p] = limiters[Sentinel]
    /\ Sentinel \in DOMAIN limiters => FreshBurst(Sentinel)

C10_Witness ==
  /\ ~limiter.nil
  /\ LET ev == EventsOf(Sentinel)
     IN  /\ Len(ev) = limiter.burst + 1
         /\ SameInstant(ev, Len(ev))
         /\ ~ev[Len(ev)].ok
  /\ \E p \in Procs : \E q \in Procs :
       /\ resp[p] = [path |-> "http", key |-> "", answer |-> "next"]
       /\ resp[q] = [path |-> "grpc", key |-> "", answer |-> "ResourceExhausted"]

\* Bit k of the byte n, bit 7 being the most significant.
Bit(n, k) == (n \div (2 ^ k)) % 2

\* Sixteen bytes, byte 6 with high nibble 0111, byte 8 with top bits 10.
WellFormedV7(data) ==
  /\ Len(data) = 16
  /\ <<Bit(data[7], 7), Bit(data[7], 6), Bit(data[7], 5), Bit(data[7], 4)>>
       = <<0, 1, 1, 1>>
  /\ <<Bit(data[9], 7), Bit(data[9], 6)>> = <<1, 0>>

\* C11: validateUUIDv7 accepts an identifier exactly when it is sixteen
\* bytes long with version nibble 0111 in byte 6 and variant bits 10 in
\* byte 8; an absent or empty identifier is rejected as required; every
\* rejection names the field; sixteen zero bytes are rejected and the same
\* bytes with byte 6 = 0x70 and byte 8 = 0x80 are accepted.
C11_UUIDv7Accepted ==
  uuidErr # NotCalled =>
    /\ (uuidErr = Ok) <=> WellFormedV7(uuidIn.data)
    /\ uuidErr # Ok => (uuidErr.field = uuidIn.fieldName /\ uuidErr.reason # "")
    /\ Len(uuidIn.data) = 0 => uuidErr.reason = "is required"
    /\ uuidIn.data = ZeroUUID => uuidErr # Ok
    /\ uuidIn.data = V7UUID => uuidErr = Ok

C11_Witness ==
  /\ uuidIn = [data |-> V7UUID, fieldName |-> "journey_id"]
  /\ uuidErr = Ok

\* The maximum the size check is claimed to use.
StatedMaxSize == IF scfg.MaxPacketSizeBytes = 0 THEN 1500 ELSE scfg.MaxPacketSizeBytes

RejectedForSize ==
  /\ sret.code = "InvalidArgument"
  /\ sret.reason = "packet size exceeds maximum"

\* C12 as stated: SendTelemetry rejects a packet for size exactly when its
\* wire size is strictly greater than the maximum (the configured one, or
\* 1500 when it is 0), and the error carries the actual and the maximum size.
C12_SizeRejectedIffOver ==
  spc = "returned" =>
    /\ RejectedForSize <=> Size(packet) > StatedMaxSize
    /\ RejectedForSize => sret.args = <<Size(packet), StatedMaxSize>>

\* C12, amended: the same for every packet that carries metadata; a packet
\* without metadata is turned away as such whatever its size.
C12_SizeRejectedIffOverWithMetadata ==
  spc = "returned" =>
    /\ packet.meta => (RejectedForSize <=> Size(packet) > StatedMaxSize)
    /\ RejectedForSize => sret.args = <<Size(packet), StatedMaxSize>>
    /\ ~packet.meta => (sret.code = "InvalidArgument" /\ sret.field = "metadata")

C12_Witness ==
  /\ spc = "returned"
  /\ scfg.MaxPacketSizeBytes = 0
  /\ packet.meta
  /\ Size(packet) = 1500
  /\ sret.code = "OK"

\* The context limit in force.
StatedMaxContext == IF scfg.MaxContextAttrs = 0 THEN 6 ELSE scfg.MaxContextAttrs

\* Some log entry of the packet holds more context attributes than m.
OverContext(pkt, m) ==
  pkt.hasLogs /\ \E i \in 1 .. Len(pkt.entries) : pkt.entries[i].ctx > m

\* The documents handed to the logs index, in order.
LogItems == SelectSeq(items, LAMBDA it : it.index = "logs")

\* C13: with limit M (configured, or 6 when configured as 0), a packet whose
\* log entries all hold at most M context attributes is not rejected for its
\* context and, when accepted, has every entry indexed with its whole
\* context; a packet with an entry of M+1 or more attributes gets
\* InvalidArgument for the whole request; no indexed entry is ever cut down.
C13_ContextLimit ==
  spc = "returned" =>
    /\ OverContext(packet, StatedMaxContext) => sret.code = "InvalidArgument"
    /\ ~OverContext(packet, StatedMaxContext) => sret.field # "context"
    /\ sret.code = "OK" =>
         /\ Len(LogItems) = (IF packet.hasLogs THEN Len(packet.entries) ELSE 0)
         /\ \A i \in 1 .. Len(LogItems) : LogItems[i].doc.pos = i
    /\ \A i \in 1 .. Len(LogItems) :
         LogItems[i].doc.ctx = packet.entries[LogItems[i].doc.pos].ctx

C13_Witness ==
  /\ spc = "returned"
  /\ scfg.MaxContextAttrs = 0
  /\ sret.code = "OK"
  /\ Len(packet.entries) = 2
  /\ packet.entries[1].ctx = 6
  /\ Len(LogItems) = 2
  /\ LogItems[1].doc.ctx = 6

\* The check that fails first when the checks are applied in the order
\* size, installation_id, journey_id, context ("" when none fails).
FirstFailing(pkt) ==
  IF Size(pkt) > StatedMaxSize THEN "packet"
  ELSE IF ~WellFormedV7(pkt.instId) THEN "installation_id"
  ELSE IF ~WellFormedV7(pkt.journeyId) THEN "journey_id"
  ELSE IF OverContext(pkt, StatedMaxContext) THEN "context"
  ELSE ""

\* C14 as stated: SendTelemetry applies its checks in the order packet
\* size, installation_id, journey_id, per-entry context count and returns
\* the error of the first one that fails.
C14_FirstFailingCheckReported ==
  spc = "returned" =>
    /\ sret.field = FirstFailing(packet)
    /\ (sret.code = "OK") <=> (FirstFailing(packet) = "")

\* C14, amended: the presence of the metadata is checked before all of
\* them; for a packet that carries metadata the order is as stated.
C14_MetadataThenFirstFailing ==
  spc = "returned" =>
    /\ sret.field = (IF packet.meta THEN FirstFailing(packet) ELSE "metadata")
    /\ (sret.code = "OK") <=> (packet.meta /\ FirstFailing(packet) = "")

C14_Witness ==
  /\ spc = "returned"
  /\ packet.meta
  /\ Size(packet) > StatedMaxSize
  /\ ~WellFormedV7(packet.instId)
  /\ ~WellFormedV7(packet.journeyId)
  /\ OverContext(packet, StatedMaxContext)
  /\ sret.field = "packet"

\* The documents handed to the metrics index, in order.
MetricItems == SelectSeq(items, LAMBDA it : it.index = "metrics")

\* Add was called once for each of the n points or entries, in order.
OncePerPosition(its, kind, n) ==
  /\ Len(its) = n
  /\ \A i \in 1 .. n : its[i].doc.kind = kind /\ its[i].doc.pos = i

\* C15: for every packet that passes validation SendTelemetry returns
\* Ack{Success: true, Message: "Accepted"} and has called Add exactly once
\* per metric point, with the metrics index, and exactly once per log entry,
\* with the logs index: |points| + |entries| calls in all.
C15_OneAddPerDocument ==
  (spc = "returned" /\ sret.code = "OK") =>
    /\ sret.ack = Accepted
    /\ OncePerPosition(MetricItems, "metric",
                       IF packet.hasMetrics THEN packet.points ELSE 0)
    /\ OncePerPosition(LogItems, "log",
                       IF packet.hasLogs THEN Len(packet.entries) ELSE 0)
    /\ Len(items) = MaxDocs(packet)

\* The same for the packets whose metric points hold finite numbers only.
OneAddPerFiniteDocument == packet.nanPoints = {} => C15_OneAddPerDocument

\* The (index, document) pairs of a sequence of Add calls.
Docs(its) == [i \in 1 .. Len(its) |-> [index |-> its[i].index, doc |-> its[i].doc]]

\* What SendTelemetry does with the packet when the indexer never fails.
NoFailureRun == SendTelemetry(scfg, packet, {})

\* C16: whichever Add calls return an error and whichever failure callbacks
\* fire, SendTelemetry returns what it returns when the indexer never fails
\* (the success Ack for a valid packet) and has handed the indexer the same
\* documents in the same order: every remaining document is attempted and
\* none is attempted twice.
C16_IndexerFailuresIgnored ==
  spc = "returned" =>
    /\ sret = [code |-> NoFailureRun.code, reason |-> NoFailureRun.reason,
               field |-> NoFailureRun.field, args |-> NoFailureRun.args,
               ack |-> NoFailureRun.ack]
    /\ Docs(items) = Docs(NoFailureRun.items)
    /\ sret.code = "OK" => sret.ack = Accepted

C16_Witness ==
  /\ spc = "returned"
  /\ sret.ack = Accepted
  /\ Len(items) = 3
  /\ items[1].err
  /\ items[2].failed
  /\ ~items[3].err

\* ------------------------------------- the credential check, specification
\* User names and passwords: "u", "U", "v", "us", "" and "p", "P", "q",
\* "p:q", "".
Usernames == {<<117>>, <<85>>, <<118>>, <<117, 115>>, << >>}
Passwords == {<<112>>, <<80>>, <<113>>, <<112, 58, 113>>, << >>}
AuthConfigs ==
  [Enabled : {TRUE}, Username : {<<117>>, <<117, 115>>},
   Password : {<<112>>, <<112, 58, 113>>}]

\* What clients encode: "username:password", and the colon-free "up" and "".
AuthPayloads ==
  {u \o <<Colon>> \o pw : u \in Usernames, pw \in Passwords}
  \cup {<<117, 112>>, << >>}

\* Texts that are not base64: a length that is no multiple of four, a
\* character outside the alphabet, padding in front.
InvalidBase64Texts ==
  {<<"d", "T", "p">>, <<"d", "T", "!", "w">>, <<"=", "d", "T", "p">>,
   <<"d", "T", "p", "w", "d">>}

\* Values of the Authorization header (the authorization metadata key).
Schemes ==
  {Prefix, <<"b", "a", "s", "i", "c", " ">>, <<"B", "A", "S", "I", "C", " ">>,
   <<"B", "e", "a", "r", "e", "r", " ">>, << >>}
AuthHeaders ==
  {sch \o EncodeToBase64(b) : sch \in Schemes, b \in AuthPayloads}
  \cup {Prefix \o t : t \in InvalidBase64Texts}
  \cup {<<"B", "a", "s", "i", "c">>}
AuthValues ==
  {<< >>} \cup {<<h>> : h \in AuthHeaders}
  \cup {<<Prefix \o <<"d", "T", "p">>, Creds(User, Pass1)>>,
        <<Creds(User, Pass1), Prefix \o <<"d", "T", "p">>>>}

AuthInputs ==
  [values : AuthValues, hasMD : {TRUE}, c : AuthConfigs,
   username : {<<117>>, <<85>>, <<117, 115>>, << >>},
   password : {<<112>>, <<80>>, <<112, 58, 113>>, <<112, 58>>}]
  \cup [values : {<< >>}, hasMD : {FALSE}, c : AuthConfigs,
        username : {<<117>>}, password : {<<112>>}]

InitAuth ==
  /\ cfg = [Enabled |-> FALSE, RequestsPerSecond |-> 0, Burst |-> 0]
  /\ limiter = NewRateLimiter(cfg)
  /\ limiters = << >>
  /\ buckets = << >>
  /\ now = 0
  /\ pc = [p \in Procs |-> "idle"]
  /\ req = [p \in Procs |-> NoReq]
  /\ lkey = [p \in Procs |-> ""]
  /\ lref = [p \in Procs |-> 0]
  /\ tread = [p \in Procs |-> 0]
  /\ resp = [p \in Procs |-> NoResp]
  /\ events = << >>
  /\ started = 0
  /\ scfg = [MaxPacketSizeBytes |-> 0, MaxContextAttrs |-> 0]
  /\ spc = "idle"
  /\ packet = NoPacket
  /\ items = << >>
  /\ sret = NoReturn
  /\ uuidIn = NoUUIDIn
  /\ uuidErr = NotCalled
  /\ authIn \in AuthInputs
  /\ authOut = NoAuthOut
  /\ ServeIdle
  /\ ClientIdle

AuthFrame ==
  /\ UNCHANGED <<uuidIn, uuidErr>>
  /\ UNCHANGED <<limiterVars, senderVars, serveVars, clientVars>>

\* BasicAuthHTTP's handler sees the values as the Authorization header.
GateHTTP ==
  /\ authOut.http = "not called"
  /\ authOut' = [authOut EXCEPT !.http =
                   IF BasicAuthHTTP(authIn.values, authIn.c) THEN "next" ELSE "401"]
  /\ UNCHANGED authIn
  /\ AuthFrame

\* BasicAuthUnary's interceptor sees them as the authorization metadata.
GateUnary ==
  /\ authOut.unary = "not called"
  /\ authOut' = [authOut EXCEPT !.unary =
                   BasicAuthUnary(authIn.hasMD, authIn.values, authIn.c)]
  /\ UNCHANGED authIn
  /\ AuthFrame

\* credentialsMatch(username, password, cfg) is called on its own.
Match ==
  /\ authOut.match = "not called"
  /\ authOut' = [authOut EXCEPT
                   !.match =
                     IF credentialsMatch(authIn.username, authIn.password, authIn.c)
                     THEN "true" ELSE "false",
                   !.work =
                     credentialsMatchWork(authIn.username, authIn.password, authIn.c)]
  /\ UNCHANGED authIn
  /\ AuthFrame

NextAuth == GateHTTP \/ GateUnary \/ Match

SpecAuth == InitAuth /\ [][NextAuth]_vars

\* ------------------------------------- the web client's offline queue
\* A queued item is retried until it has failed 5 times.
RetryLimit == 5

queuePacket_NoShift(queue, pkt) ==
  Append(queue, [packet |-> pkt, retries |-> 0])

\* queuePacket: the queue to store after the packet pkt was added.
queuePacket(queue, pkt) ==
  Append(IF Len(queue) >= MAX_QUEUE_SIZE THEN Tail(queue) ELSE queue,
         [packet |-> pkt, retries |-> 0])

\* localStorage outlives the page: the queue is empty at first, or holds a
\* packet (number 0) that an earlier visit has already retried 4 times.
StoredBefore == {<< >>, <<[packet |-> 0, retries |-> RetryLimit - 1]>>}

InitClient ==
  /\ cfg = [Enabled |-> FALSE, RequestsPerSecond |-> 0, Burst |-> 0]
  /\ limiter = NewRateLimiter(cfg)
  /\ limiters = << >>
  /\ buckets = << >>
  /\ now = 0
  /\ pc = [p \in Procs |-> "idle"]
  /\ req = [p \in Procs |-> NoReq]
  /\ lkey = [p \in Procs |-> ""]
  /\ lref = [p \in Procs |-> 0]
  /\ tread = [p \in Procs |-> 0]
  /\ resp = [p \in Procs |-> NoResp]
  /\ events = << >>
  /\ started = 0
  /\ scfg = [MaxPacketSizeBytes |-> 0, MaxContextAttrs |-> 0]
  /\ spc = "idle"
  /\ packet = NoPacket
  /\ items = << >>
  /\ sret = NoReturn
  /\ PureIdle
  /\ acfg = NoAuth
  /\ ccfg = NoCORS
  /\ hreq = NoServeReq
  /\ hpc = "idle"
  /\ hpos = 0
  /\ htrace = << >>
  /\ hresp = NoResponse
  /\ served = 0
  /\ wiring = "httpserver.go"
  /\ storage \in StoredBefore
  /\ inflight = {}
  /\ pass = [r \in Passes |-> NoPass]
  /\ sent = 0
  /\ passesRun = 0

ClientFrame == UNCHANGED <<limiterVars, senderVars, pureVars, serveVars>>

\* The page calls sendTelemetryPacket with a new packet: up to the fetch.
ClientSend ==
  /\ sent < MaxPackets
  /\ sent' = sent + 1
  /\ inflight' = inflight \cup {sent + 1}
  /\ UNCHANGED <<storage, pass, passesRun>>
  /\ ClientFrame

\* sendTelemetryPacket after the fetch: the server answered ok.
FetchOk ==
  \E p \in inflight :
    /\ inflight' = inflight \ {p}
    /\ UNCHANGED <<storage, pass, sent, passesRun>>
    /\ ClientFrame

\* sendTelemetryPacket after the fetch: it failed, the catch queues the packet.
FetchFails ==
  \E p \in inflight :
    /\ inflight' = inflight \ {p}
    /\ storage' = queuePacket(storage, p)
    /\ UNCHANGED <<pass, sent, passesRun>>
    /\ ClientFrame

\* retryQueuedPackets up to its first fetch: it reads the queue, and returns
\* at once when the queue is empty.
RetryStart(r) ==
  /\ pass[r].pc = "idle"
  /\ passesRun < MaxPasses
  /\ passesRun' = passesRun + 1
  /\ pass' = IF Len(storage) = 0 THEN pass
             ELSE [pass EXCEPT ![r] = [pc |-> "fetch", queue |-> storage,
                                       i |-> 1, newQueue |-> << >>]]
  /\ UNCHANGED <<storage, inflight, sent>>
  /\ ClientFrame

\* The loop goes on to the next item's fetch, or, after the last item,
\* retryQueuedPackets stores newQueue and returns.
Continue(r, newQueue, stored) ==
  IF pass[r].i < Len(pass[r].queue)
  THEN /\ pass' = [pass EXCEPT ![r].i = @ + 1, ![r].newQueue = newQueue]
       /\ storage' = stored
  ELSE /\ pass' = [pass EXCEPT ![r] = NoPass]
       /\ storage' = newQueue

\* The fetch for the item at hand succeeded.
RetryItemOk(r) ==
  /\ pass[r].pc = "fetch"
  /\ Continue(r, pass[r].newQueue, storage)
  /\ UNCHANGED <<inflight, sent, passesRun>>
  /\ ClientFrame

\* The fetch for the item at hand failed: sendTelemetryPacket's catch queues
\* the packet again and rethrows, the loop's catch counts the retry and
\* keeps the item while it has fewer than 5.
RetryItemFails(r) ==
  /\ pass[r].pc = "fetch"
  /\ LET item == pass[r].queue[pass[r].i]
         retries == item.retries + 1
     IN  Continue(r,
                  IF retries < RetryLimit
                  THEN Append(pass[r].newQueue, [item EXCEPT !.retries = retries])
                  ELSE pass[r].newQueue,
                  queuePacket(storage, item.packet))
  /\ UNCHANGED <<inflight, sent, passesRun>>
  /\ ClientFrame

NextClient ==
  \/ ClientSend
  \/ FetchOk
  \/ FetchFails
  \/ \E r \in Passes : RetryStart(r)
  \/ \E r \in Passes : RetryItemOk(r)
  \/ \E r \in Passes : RetryItemFails(r)

SpecClient == InitClient /\ [][NextClient]_vars

\* The header values that present the credentials of c: the scheme "Basic"
\* in any letter case, a space, and the base64 of "username:password".
PresentsCredentials(values, c) ==
  /\ Len(values) > 0
  /\ Len(values[1]) > Len(Prefix)
  /\ EqualFold(SubSeq(values[1], 1, Len(Prefix)), Prefix)
  /\ SubSeq(values[1], Len(Prefix) + 1, Len(values[1]))
       = EncodeToBase64(c.Username \o <<Colon>> \o c.Password)

AuthFailedStatus(path) == IF path = "http" THEN "401" ELSE "Unauthenticated"

SenderReached == \E i \in 1 .. Len(htrace) : htrace[i] = "SendTelemetry"

\* C17: with basic auth enabled, a request whose credentials are missing,
\* malformed or mismatched is answered 401 (HTTP) or Unauthenticated (gRPC),
\* and Sender.SendTelemetry is never invoked and no document is enqueued for
\* it, on both paths.
C17_AuthFailedBeforeValidation ==
  (/\ hreq # NoServeReq
   /\ acfg.Enabled
   /\ ~PresentsCredentials(hreq.auth, acfg))
  => /\ ~SenderReached
     /\ items = << >>
     /\ sret = NoReturn
     /\ hpc = "done" => hresp.status = AuthFailedStatus(hreq.path)

BadCredentials ==
  /\ hreq # NoServeReq
  /\ acfg.Enabled
  /\ ~PresentsCredentials(hreq.auth, acfg)

\* The CORS stage has answered an OPTIONS preflight from an allowed origin
\* itself, in the server whose New puts it in front of the auth stage.
PreflightAnswered ==
  /\ hreq.path = "http"
  /\ wiring = "part_005"
  /\ hreq.method = "OPTIONS"
  /\ hresp.cors.origin # ""
  /\ hresp.status = "200"
  /\ htrace = <<"cors">>

\* C17, amended: with basic auth enabled, Sender.SendTelemetry is never
\* invoked and no document is enqueued for a request whose credentials are
\* missing, malformed or mismatched; it is answered 401 (HTTP) or
\* Unauthenticated (gRPC) by the auth stage, except for an OPTIONS preflight
\* from an allowed origin that the CORS stage of part_005's server answers
\* with 200 before the auth stage sees it.
C17_AuthFailedNeverValidated ==
  BadCredentials
  => /\ ~SenderReached
     /\ items = << >>
     /\ sret = NoReturn
     /\ hpc = "done"
          => \/ /\ hresp.status = AuthFailedStatus(hreq.path)
                /\ htrace[Len(htrace)] = "auth"
             \/ PreflightAnswered

C17_Witness ==
  /\ hpc = "done"
  /\ acfg.Enabled
  /\ hreq.path = "http"
  /\ hreq.method = "POST"
  /\ hreq.body = [ok |-> TRUE, pkt |-> ValidPacket]
  /\ hreq.auth = <<Creds(User, <<113>>)>>
  /\ hresp.status = "401"
  /\ hresp.wwwAuth
  /\ items = << >>

BothGatesCalled == authOut.http # "not called" /\ authOut.unary # "not called"

\* C18: for every Authorization value and every expected username and
\* password, BasicAuthHTTP accepts the request if and only if BasicAuthUnary
\* accepts the same value sent as the authorization metadata.
C18_GatesAgree ==
  (BothGatesCalled /\ authIn.hasMD)
  => (authOut.http = "next" <=> authOut.unary = "")

\* The gates agree on every value whose scheme is not "Basic" in another
\* letter case.
ExactScheme(values) ==
  \/ Len(values) = 0
  \/ Len(values[1]) < Len(Prefix)
  \/ HasPrefix(values[1], Prefix)
  \/ ~EqualFold(SubSeq(values[1], 1, Len(Prefix)), Prefix)

GatesAgreeOnExactScheme ==
  (BothGatesCalled /\ ExactScheme(authIn.values))
  => (authOut.http = "next" <=> authOut.unary = "")

UnaryCalled == authOut.unary # "not called" /\ authIn.hasMD

\* The header is the scheme "Basic " followed by the base64 of b.
Carries(b) == authIn.values = <<Prefix \o EncodeToBase64(b)>>

HasColon(b) == \E i \in 1 .. Len(b) : b[i] = Colon

\* C19: validateBasicAuth returns an error when the value is missing, does
\* not start with "Basic ", is not valid base64, or decodes to a value
\* without a colon; the decoded value is split on its first colon only, so
\* a password with colons in it is compared as the whole remainder.
C19_ValidateBasicAuthErrors ==
  UnaryCalled =>
    /\ Len(authIn.values) = 0 => authOut.unary = "authorization header missing"
    /\ (Len(authIn.values) > 0 /\ ~HasPrefix(authIn.values[1], Prefix))
         => authOut.unary = "invalid authorization header"
    /\ \A t \in InvalidBase64Texts :
         authIn.values = <<Prefix \o t>>
           => authOut.unary = "invalid base64 in authorization header"
    /\ \A b \in AuthPayloads :
         (Carries(b) /\ ~HasColon(b)) => authOut.unary = "invalid authorization value"
    /\ \A u \in Usernames, pw \in Passwords :
         Carries(u \o <<Colon>> \o pw)
           => /\ authOut.unary \in {"", "invalid credentials"}
              /\ authOut.unary = "" <=> (u = authIn.c.Username /\ pw = authIn.c.Password)

\* "u:p:q" is presented where the password "p:q" is expected, and accepted.
C19_Witness ==
  /\ UnaryCalled
  /\ Carries(<<117, 58, 112, 58, 113>>)
  /\ authIn.c.Username = <<117>>
  /\ authIn.c.Password = <<112, 58, 113>>
  /\ authOut.unary = ""

\* C20: credentialsMatch returns true if and only if the supplied username
\* equals the configured one and the supplied password equals the configured
\* one, byte for byte; a difference in one field fails with the other right.
C20_CredentialsMatchExact ==
  authOut.match # "not called"
  => (authOut.match = "true"
        <=> (authIn.username = authIn.c.Username /\ authIn.password = authIn.c.Password))

\* The password differs in the case of its one letter, the username is right.
C20_Witness ==
  /\ authOut.match = "false"
  /\ authIn.username = authIn.c.Username
  /\ authIn.c.Password = <<112>>
  /\ authIn.password = <<80>>

MatchCalled == authOut.match # "not called"

\* C21: credentialsMatch compares both the username and the password in
\* constant time on every call, so the work it does is the same for any two
\* inputs: it depends neither on where the first mismatching byte is, nor on
\* the length of the supplied values, nor on whether the username has
\* already mismatched.
C21_SameWorkForAllInputs ==
  MatchCalled
  => \A u \in Usernames, pw \in Passwords :
       authOut.work = credentialsMatchWork(u, pw, authIn.c)

\* What holds: with a username and a password of the configured lengths and
\* the username right, the work does not depend on where the password
\* differs.
SameWorkForEqualLengths ==
  (/\ MatchCalled
   /\ authIn.username = authIn.c.Username
   /\ Len(authIn.password) = Len(authIn.c.Password))
  => authOut.work = Len(authIn.c.Username) + Len(authIn.c.Password)

\* The place of a step in the order CORS, basic auth, rate limit, Sender;
\* the mux and the decoding of the body come between auth and rate limit.
StageRank(step) ==
  CASE step = "cors" -> 1
    [] step = "auth" -> 2
    [] step = "mux" -> 3
    [] step \in {"decode", "healthz"} -> 4
    [] step = "Allow" -> 5
    [] step = "SendTelemetry" -> 6

Reached(step) == \E i \in 1 .. Len(htrace) : htrace[i] = step

CorsAuthLimitSender ==
  /\ \A i \in 1 .. Len(htrace), j \in 1 .. Len(htrace) :
       i < j => StageRank(htrace[i]) < StageRank(htrace[j])
  /\ (ccfg.Enabled /\ Reached("auth")) => Reached("cors")
  /\ hresp.status \in {"401", "429"} => ~Reached("SendTelemetry")
  /\ hresp.status = "401" => ~Reached("Allow")

\* C22: on the HTTP path a request passes the stages in the order CORS,
\* basic auth, rate limit, Sender.SendTelemetry; a request stopped at one
\* stage reaches no later one, and the CORS stage handles every request
\* before the auth stage sees it.
C22_StageOrder == hreq.path = "http" => CorsAuthLimitSender

\* The order holds in the server that part_005's New builds.
StageOrderOfPart005 ==
  (hreq.path = "http" /\ wiring = "part_005") => CorsAuthLimitSender

\* The request stands before a rate limiter: in the route's handler after
\* the body was decoded, or in RateLimitUnary's interceptor.
BeforeLimiter ==
  \/ /\ AtStage("http", "mux")
     /\ hreq.route = "/v1/telemetry"
     /\ hreq.method = "POST"
     /\ hreq.body.ok
     /\ telemetryMux(limiter)
  \/ AtStage("grpc", "ratelimit")

LimiterKey ==
  IF hreq.path = "http" THEN installationIDHex(hreq.body.pkt)
  ELSE installationIDFromRequest([kind |-> "packet", meta |-> hreq.body.pkt.meta,
                                  instId |-> hreq.body.pkt.instId])

LimiterAdmits == AllowAt(limiters, buckets, limiter, LimiterKey, now).ok

\* C23: a request the rate limiter denies is answered 429 (HTTP) or
\* ResourceExhausted (gRPC) and goes no further: neither the wrapped handler
\* nor Sender.SendTelemetry is invoked and nothing is enqueued; a request
\* it admits is passed on unchanged.
C23_DeniedGoesNoFurther ==
  [][BeforeLimiter =>
       IF LimiterAdmits
       THEN /\ hreq' = hreq
            /\ IF hreq.path = "http"
               THEN /\ htrace'[Len(htrace')] = "SendTelemetry"
                    /\ packet' = hreq.body.pkt
                    /\ hresp'.status \in {"202", "400"}
               ELSE /\ hpc' = "run"
                    /\ Chain("grpc")[hpos'] = "handler"
                    /\ hresp' = hresp
       ELSE /\ hpc' = "done"
            /\ hresp'.status = IF hreq.path = "http" THEN "429" ELSE "ResourceExhausted"
            /\ htrace'[Len(htrace')] = "Allow"
            /\ items' = << >>
            /\ sret' = NoReturn]_vars

C23_Witness ==
  /\ hpc = "done"
  /\ hreq.path = "grpc"
  /\ hreq.body.pkt = ValidPacket
  /\ hresp.status = "ResourceExhausted"
  /\ htrace[Len(htrace)] = "Allow"
  /\ items = << >>
  /\ served = 2

\* The request's Origin is one the configured list allows.
OriginListed ==
  /\ hreq.origin # ""
  /\ \E i \in 1 .. Len(ccfg.AllowedOrigins) :
       ccfg.AllowedOrigins[i] \in {hreq.origin, "*"}

\* The CORS stage has handled the request and called the next handler.
CorsPassedOn ==
  \E i \in 1 .. Len(htrace) :
    htrace[i] = "cors" /\ (i < Len(htrace) \/ hpc = "run")

\* C24: with CORS enabled and a non-empty allowed-origins list, the response
\* carries Access-Control-Allow-Origin only when the request's Origin equals
\* a listed origin or the list contains "*", and its value is the matched
\* entry; a request with a non-listed Origin or none gets no CORS headers
\* and is still passed to the next handler.  With CORS disabled no request
\* gets CORS headers.
C24_AllowOriginOnlyIfListed ==
  hreq.path = "http" =>
    /\ ~ccfg.Enabled => hresp.cors = NoCorsHeaders
    /\ (ccfg.Enabled /\ Len(ccfg.AllowedOrigins) > 0) =>
         /\ hresp.cors.origin # "" =>
              /\ OriginListed
              /\ hresp.cors.origin \in {hreq.origin, "*"}
              /\ \E i \in 1 .. Len(ccfg.AllowedOrigins) :
                   ccfg.AllowedOrigins[i] = hresp.cors.origin
         /\ (Reached("cors") /\ OriginListed) => hresp.cors.origin # ""
         /\ (Reached("cors") /\ ~OriginListed) =>
              /\ hresp.cors = NoCorsHeaders
              /\ CorsPassedOn

\* Origin "b" against the list "a": no CORS headers, and the packet accepted.
C24_Witness ==
  /\ hpc = "done"
  /\ ccfg.Enabled
  /\ ccfg.AllowedOrigins = <<"a">>
  /\ hreq.origin = "b"
  /\ Reached("cors")
  /\ hresp.cors = NoCorsHeaders
  /\ hresp.status = "202"

\* The CORS stage has handled the request and found its origin allowed.
CorsApplied == hreq.path = "http" /\ Reached("cors") /\ hresp.cors.origin # ""

\* C25: with CORS enabled and the origin allowed, a request that carries
\* Access-Control-Request-Private-Network: true, an OPTIONS preflight or an
\* actual request, gets Access-Control-Allow-Private-Network: true, and a
\* request without that header does not get it.
C25_PrivateNetworkAccess ==
  CorsApplied => (hresp.cors.privateNetwork <=> hreq.pna)

\* What holds: no response carries Access-Control-Allow-Private-Network.
NoPrivateNetworkHeader == ~hresp.cors.privateNetwork

HasPiece(joined, piece) == \E i \in 1 .. Len(joined) : joined[i] = piece

\* C26: with CORS enabled, the origin allowed and neither methods nor headers
\* configured, Access-Control-Allow-Methods is the default list with GET,
\* POST, PUT, DELETE and OPTIONS and Access-Control-Allow-Headers is not
\* set; Access-Control-Allow-Headers appears only when headers are configured.
C26_DefaultMethodsNoDefaultHeaders ==
  CorsApplied =>
    /\ (Len(ccfg.AllowedMethods) = 0 /\ Len(ccfg.AllowedHeaders) = 0) =>
         /\ \A m \in {"GET", "POST", "PUT", "DELETE", "OPTIONS"} :
              HasPiece(hresp.cors.methods, m)
         /\ hresp.cors.headers = << >>
    /\ hresp.cors.headers # << >> => Len(ccfg.AllowedHeaders) > 0

\* What holds: the default methods, and the configured methods and headers.
DefaultMethodsConfiguredHeaders ==
  CorsApplied =>
    /\ Len(ccfg.AllowedMethods) = 0 =>
         hresp.cors.methods = <<"GET", ", ", "POST", ", ", "PUT", ", ",
                                "DELETE", ", ", "OPTIONS">>
    /\ Len(ccfg.AllowedMethods) > 0 => hresp.cors.methods = <<"GET", ", ", "POST">>
    /\ Len(ccfg.AllowedHeaders) > 0 => hresp.cors.headers = <<"X-Custom">>
    /\ Len(ccfg.AllowedHeaders) = 0 =>
         hresp.cors.headers = <<"Content-Type", ", ", "Authorization", ", ",
                                "X-Requested-With">>

\* C28: with basic auth enabled, a request that fails authentication never
\* reaches RateLimiter.Allow on either path: it consumes no token and
\* creates no bucket.
C28_AuthFailureSparesLimiter ==
  [][BadCredentials' =>
       /\ ~Reached("Allow")'
       /\ limiters' = limiters
       /\ buckets' = buckets]_vars

\* The first request has taken the token of its installation id; the second,
\* with a wrong password and the same id, is turned away and the bucket is
\* as it was.
C28_Witness ==
  /\ BadCredentials
  /\ hpc = "done"
  /\ served = 2
  /\ hreq.body.pkt = ValidPacket
  /\ hresp.status \in {"401", "Unauthenticated"}
  /\ NormalizeKey(LimiterKey) \in DOMAIN limiters
  /\ Len(buckets) = 1
  /\ buckets[1].tokens = 0

\* The tokens in the bucket of key; a bucket not yet created would start full.
TokensOf(lims, bks, key) ==
  IF key \in DOMAIN lims THEN bks[lims[key]].tokens
  ELSE limiter.burst * TicksPerSec

LimiterDenied == hresp.status \in {"429", "ResourceExhausted"}

ValidationFailed ==
  \/ hresp.status = "400" /\ Reached("SendTelemetry")
  \/ hresp.status = "InvalidArgument"

\* C29: rate-limit admission is decided before packet validation on both
\* paths and is keyed by the unvalidated installation id: an admitted request
\* has consumed one token from the bucket of its hex-encoded installation id
\* (created if new) also when it then fails validation, whereas an HTTP
\* request rejected for its method or an undecodable body consumes none.
C29_TokenTakenBeforeValidation ==
  [][/\ (BeforeLimiter /\ ~LimiterDenied') =>
          /\ NormalizeKey(LimiterKey) \in DOMAIN limiters'
          /\ TokensOf(limiters', buckets', NormalizeKey(LimiterKey))
               = TokensOf(limiters, buckets, NormalizeKey(LimiterKey)) - TicksPerSec
     /\ (ValidationFailed' /\ ~limiter.nil) =>
          /\ Reached("Allow")'
          /\ htrace'[Len(htrace')] = "SendTelemetry"
          /\ NormalizeKey(LimiterKey)' \in DOMAIN limiters'
     /\ (/\ AtStage("http", "mux")
         /\ hreq.route = "/v1/telemetry"
         /\ hreq.method # "POST" \/ ~hreq.body.ok) =>
          /\ hresp'.status \in {"405", "400"}
          /\ ~Reached("Allow")'
          /\ limiters' = limiters
          /\ buckets' = buckets]_vars

\* A packet with a zero installation id is admitted, takes the token of the
\* new bucket of that id, and is then rejected by the validation.
C29_Witness ==
  /\ hpc = "done"
  /\ served = 1
  /\ hreq.body.pkt.instId = ZeroUUID
  /\ ValidationFailed
  /\ sret.field = "installation_id"
  /\ DOMAIN limiters = {installationIDHex(hreq.body.pkt)}
  /\ buckets[1].tokens = 0

\* The packets of a queue, and how often a packet is in it.
PacketsOf(queue) == {queue[k].packet : k \in 1 .. Len(queue)}

Occurrences(queue, pkt) == Cardinality({k \in 1 .. Len(queue) : queue[k].packet = pkt})

\* C27: the offline queue never holds more than MAX_QUEUE_SIZE packets
\* after any sequence of failed sends and retry passes: queuing a packet when
\* the queue is full removes the oldest one first, so the queue keeps the
\* most recent ones in arrival order.
C27_QueueBounded ==
  [][/\ Len(storage') <= MAX_QUEUE_SIZE
     /\ \A p \in inflight \ inflight' :
          storage' # storage =>
            /\ storage'[Len(storage')] = [packet |-> p, retries |-> 0]
            /\ SubSeq(storage', 1, Len(storage') - 1)
                 = IF Len(storage) = MAX_QUEUE_SIZE THEN Tail(storage) ELSE storage]_vars

\* The queue is full of the packets 2 .. MAX_QUEUE_SIZE + 1 in the order
\* they failed; packet 1, the oldest, has been removed.
C27_Witness ==
  /\ Len(storage) = MAX_QUEUE_SIZE
  /\ sent = MAX_QUEUE_SIZE + 1
  /\ inflight = {}
  /\ \A k \in 1 .. Len(storage) : storage[k] = [packet |-> k + 1, retries |-> 0]

\* C30: no failed packet is lost to an interleaving: a packet queued by a
\* failed send while a retryQueuedPackets pass is in flight is still in the
\* stored queue after the pass writes its result, and after a pass the queue
\* holds each still-unsent packet with fewer than 5 retries exactly once.
C30_NoPacketLostToInterleaving ==
  [][\A r \in Passes :
       (pass[r].pc = "fetch" /\ pass'[r].pc = "idle") =>
         /\ \A pkt \in PacketsOf(storage) \ PacketsOf(pass[r].queue) :
              pkt \in PacketsOf(storage')
         /\ \A pkt \in PacketsOf(storage') : Occurrences(storage', pkt) = 1]_vars

\* What holds: a pass stores what is left of the queue it read, each item
\* at most once and with fewer than 5 retries, whatever was stored meanwhile.
PassStoresItsOwnQueue ==
  [][\A r \in Passes :
       (pass[r].pc = "fetch" /\ pass'[r].pc = "idle") =>
         /\ PacketsOf(storage') \subseteq PacketsOf(pass[r].queue)
         /\ Len(storage') <= Len(pass[r].queue)
         /\ \A k \in 1 .. Len(storage') : storage'[k].retries < RetryLimit]_vars

====
